---- MODULE Spec2Model ----
(***************************************************************************)
(* Model of the SSR generation pass                                        *)
(* (llvm/lib/Transforms/SSR/SSRGeneration.cpp).                            *)
(*                                                                         *)
(* SpecTree  : ConflictTree<NodeT> (insertNode, findBest).                 *)
(***************************************************************************)
EXTENDS Integers, Sequences, FiniteSets, TLC

VARIABLES
  tree,     \* ConflictTree: [values, children, Root] (in run: trees[T])
  res,      \* the vector returned by ConflictTree::findBest (in run: best)
  tpc,      \* position of the conflict-tree client: "build" | "found"
  pc,       \* position of SSRGenerationPass::run
  F,        \* the function the pass runs on
  F0,       \* the function as it was when run was entered
  flags,    \* the command line flags
  inp,      \* what the analyses report: [LI, AAA, expandable, toploops, tc]
  ssrInvalidLoops,
  tIdx,     \* index of T in toploops
  worklist, \* the loops of T's nest still to visit
  possible, \* loop -> candidate accesses
  bestLoops,\* top-level loop -> best
  bIdx,     \* index of L in best (first phase) or in the chosen loops (second)
  conds,    \* loop -> Cond
  checks,   \* loop -> Cond as expandAllAt left it, before the TCDM checks
  exps,     \* loop -> expanded accesses
  gains,    \* loop -> the gain visitLoop computed for it
  regions,  \* loop -> what cloneRegion returned for it, and the function then
  consulted,\* the reads of LoopInfo and of the affine-access analysis the run
            \* made: [query, after], after: a region was cloned or an
            \* intrinsic emitted before the read
  changed,
  ret,      \* what run returned: "all" | "none" (PreservedAnalyses), "" before
  runs,     \* the number of times run was entered again
  walk,     \* an execution of the function the pass left: [bb, open, bad, ...]
  scan      \* findLoopsWithSSR taken turn by turn: [worklist, visUnmarked,
            \* visMarked, invalid, log] (SpecScan)

treeVars == <<tree, res, tpc>>
inputVars == <<flags, inp>>
localVars == <<ssrInvalidLoops, tIdx, worklist, possible, bestLoops, bIdx, conds,
               checks, exps, gains, regions, consulted, changed>>
runVars == <<pc, F, F0, inputVars, localVars, ret, runs, walk, scan>>
vars == <<treeVars, runVars>>

(***************************************************************************)
(* Bounds of the model                                                     *)
(***************************************************************************)
MaxNodes == 4

(* A 32-bit unsigned is held as two 16-bit limbs [hi, lo]: the checker's   *)
(* integers stop at 2^31 - 1.  A value whose hi limb reaches Limb is out   *)
(* of the unsigned range (used only for the mathematical sums).            *)
Limb == 256 * 256

U32(n) == [hi |-> n \div Limb, lo |-> n % Limb]
UIntMax == [hi |-> Limb - 1, lo |-> Limb - 1]

(* exact (unwrapped) sum of two limb pairs *)
WideAdd(a, b) ==
  [hi |-> a.hi + b.hi + ((a.lo + b.lo) \div Limb), lo |-> (a.lo + b.lo) % Limb]

(* unsigned a + b: wraps at 2^32 *)
UAdd(a, b) == [hi |-> WideAdd(a, b).hi % Limb, lo |-> WideAdd(a, b).lo]

(* unsigned a > b *)
UGt(a, b) == a.hi > b.hi \/ (a.hi = b.hi /\ a.lo > b.lo)

(* unsigned a - b: wraps at 2^32 *)
USub(a, b) ==
  [hi |-> (a.hi - b.hi - (IF a.lo < b.lo THEN 1 ELSE 0)) % Limb, lo |-> (a.lo - b.lo) % Limb]

(* x * y mod 2^16 and the exact x * y of two limbs, by bytes of y *)
MulMod(x, y) == (((x * (y \div 256)) % Limb) * 256 + x * (y % 256)) % Limb
MulWide(x, y) ==
  [hi |-> (x * (y \div 256)) \div 256
          + ((((x * (y \div 256)) % 256) * 256 + x * (y % 256)) \div Limb),
   lo |-> (((x * (y \div 256)) % 256) * 256 + x * (y % 256)) % Limb]

(* unsigned a * b: wraps at 2^32 *)
UMul(a, b) ==
  [hi |-> (MulWide(a.lo, b.lo).hi + MulMod(a.hi, b.lo) + MulMod(a.lo, b.hi)) % Limb,
   lo |-> MulWide(a.lo, b.lo).lo]

(* int is 32 bits wide, two's complement *)
INT_MAX == 2147483647
INT_MIN == -INT_MAX - 1

(* (unsigned)a and (int)u *)
ToUnsigned(a) == [hi |-> (a \div Limb) % Limb, lo |-> a % Limb]
ToInt(u) == IF u.hi >= Limb \div 2 THEN (u.hi - Limb) * Limb + u.lo ELSE u.hi * Limb + u.lo

(* what a + b, a - b and a * b of two ints are when the result wraps *)
IntAdd(a, b) == ToInt(UAdd(ToUnsigned(a), ToUnsigned(b)))
IntSub(a, b) == ToInt(USub(ToUnsigned(a), ToUnsigned(b)))
IntMul(a, b) == ToInt(UMul(ToUnsigned(a), ToUnsigned(b)))

(* the result is not an int: signed overflow, which is undefined behaviour *)
AddOverflows(a, b) == (b > 0 /\ a > INT_MAX - b) \/ (b < 0 /\ a < INT_MIN - b)
SubOverflows(a, b) == (b < 0 /\ a > INT_MAX + b) \/ (b > 0 /\ a < INT_MIN + b)
(* for the operands that occur: a >= 0 and b >= 0 *)
MulOverflows(a, b) == b > 0 /\ a > INT_MAX \div b

(* the node values tried in SpecTree: small ones and UINT_MAX *)
TreeValues == {U32(0), U32(1), U32(2), UIntMax}

(* nullptr *)
Null == 0

RECURSIVE SeqSum(_)
SeqSum(s) == IF s = <<>> THEN U32(0) ELSE WideAdd(Head(s), SeqSum(Tail(s)))

Range(s) == {s[i] : i \in DOMAIN s}

(* a function on 1..n as the sequence of its values *)
AsSeq(f) == SubSeq(f, 1, Len(f))

(***************************************************************************)
(* ConflictTree                                                            *)
(***************************************************************************)
EmptyTree == [values |-> <<>>, children |-> <<>>, Root |-> Null]

(* the three assertions of insertNode *)
insertNodeAsserts(t, Node, Parent) ==
  /\ (Node \notin DOMAIN t.values \/ Node \notin DOMAIN t.children)
  /\ (Parent = Null => t.Root = Null)
  /\ (Parent # Null => Parent \in DOMAIN t.children)

(* DenseMap::insert: an existing key keeps its value *)
MapInsert(m, k, v) ==
  IF k \in DOMAIN m THEN m
  ELSE (k :> v) @@ m

insertNode(t, Node, value, Parent) ==
  LET vs == MapInsert(t.values, Node, value)
      cs == MapInsert(t.children, Node, <<>>)
  IN IF Parent = Null
     THEN [values |-> vs, children |-> cs, Root |-> Node]
     ELSE [values |-> vs,
           children |-> [cs EXCEPT ![Parent] = Append(@, Node)],
           Root |-> t.Root]

(* the lambda f of SSRGenerationPass::run: unsigned addition *)
combineFunc(a, b) == UAdd(a, b)

(* val > nval: the children's selections are kept *)
KeepChildrenLess(val, nval) == UGt(nval, val)
KeepChildren(val, nval) == UGt(val, nval)

(* while (res.size() > size) res.pop_back(); res.push_back(N) *)
SelectNodeNoPop(r, size, N) == Append(r, N)
SelectNodeNoPush(r, size, N) == SubSeq(r, 1, size)
SelectNode(r, size, N) == Append(SubSeq(r, 1, size), N)

(* private findBest(N, combineFunc, res): returns [val, res] *)
findBestNodeItself(t, N, r) == [val |-> t.values[N], res |-> Append(r, N)]
RECURSIVE findBestNode(_, _, _)
RECURSIVE findBestChildren(_, _, _, _)
findBestChildren(t, chs, val, r) ==
  IF chs = <<>> THEN [val |-> val, res |-> r]
  ELSE LET c == findBestNode(t, Head(chs), r)
       IN findBestChildren(t, Tail(chs), combineFunc(val, c.val), c.res)

findBestNode(t, N, r) ==
  LET size == Len(r)
      sub  == findBestChildren(t, t.children[N], U32(0), r)
      nval == t.values[N]
  IN IF KeepChildren(sub.val, nval)
     THEN [val |-> sub.val, res |-> sub.res]
     ELSE [val |-> nval, res |-> SelectNode(sub.res, size, N)]

(* public findBest(combineFunc) *)
findBest(t) ==
  IF t.Root = Null THEN <<>> ELSE findBestNode(t, t.Root, <<>>).res

(***************************************************************************)
(* Tree vocabulary used by the properties                                  *)
(***************************************************************************)
TreeNodes(t) == DOMAIN t.values

IsChildOf(t, c, p) == \E i \in DOMAIN t.children[p] : t.children[p][i] = c

RECURSIVE IsAncestor(_, _, _)
(* a is a proper ancestor of d *)
IsAncestor(t, a, d) ==
  \E c \in TreeNodes(t) :
     /\ IsChildOf(t, c, a)
     /\ (c = d \/ IsAncestor(t, c, d))

Related(t, a, b) == IsAncestor(t, a, b) \/ IsAncestor(t, b, a)

IsAntichain(t, S) == \A a \in S : \A b \in S : ~Related(t, a, b)

RECURSIVE SetSum(_, _)
SetSum(t, S) ==
  IF S = {} THEN U32(0)
  ELSE LET x == CHOOSE y \in S : TRUE
       IN WideAdd(t.values[x], SetSum(t, S \ {x}))

(* the largest summed value of a set of nodes without ancestor/descendant pair *)
MaxAntichainSum(t) ==
  LET sums == {SetSum(t, S) : S \in {X \in SUBSET TreeNodes(t) : IsAntichain(t, X)}}
  IN CHOOSE m \in sums : \A s \in sums : ~UGt(s, m)

ResSum(t, r) == SeqSum(AsSeq([i \in DOMAIN r |-> t.values[r[i]]]))

(***************************************************************************)
(* The IR.  A function is [blocks, attrs, nid]: blocks is a sequence of    *)
(* basic blocks (block b is blocks[b], block 1 the entry), a basic block   *)
(* a sequence of instructions ending in its terminator, attrs the set of   *)
(* function attributes and nid the next unused instruction id.  A value    *)
(* is an instruction, a block, a constant or an argument.                  *)
(* An instruction is [id, op, args, inb, dm, imm, lp]: args its operands   *)
(* (a branch's targets are block operands), inb a phi's incoming blocks,   *)
(* dm/imm the constant data mover and immediate of an SSR intrinsic, lp    *)
(* the loop an SSR intrinsic was emitted for (bookkeeping only).           *)
(***************************************************************************)
IV(n) == [k |-> "inst", n |-> n]
BV(n) == [k |-> "block", n |-> n]
CV(n) == [k |-> "const", n |-> n]
AV(n) == [k |-> "arg", n |-> n]

Inst(id, op, args) ==
  [id |-> id, op |-> op, args |-> args, inb |-> <<>>, dm |-> -1, imm |-> 0, lp |-> 0]
Phi(id, vals, blks) == [Inst(id, "phi", vals) EXCEPT !.inb = blks]
Br(id, dest) == Inst(id, "br", <<BV(dest)>>)
CondBr(id, cond, ifTrue, ifFalse) == Inst(id, "br", <<cond, BV(ifTrue), BV(ifFalse)>>)
Ret(id) == Inst(id, "ret", <<>>)
Ssr(id, op, dm, imm, args, lp) ==
  [Inst(id, op, args) EXCEPT !.dm = dm, !.imm = imm, !.lp = lp]

BlockIds(fn) == DOMAIN fn.blocks
Terminator(fn, b) == fn.blocks[b][Len(fn.blocks[b])]

(* the block operands of an instruction, in successor order *)
RECURSIVE BlockArgs(_)
BlockArgs(args) ==
  IF args = <<>> THEN <<>>
  ELSE IF Head(args).k = "block" THEN <<Head(args).n>> \o BlockArgs(Tail(args))
       ELSE BlockArgs(Tail(args))

successors(fn, b) == BlockArgs(Terminator(fn, b).args)
predecessors(fn, b) == {p \in BlockIds(fn) : b \in Range(successors(fn, p))}

HasInst(fn, b, id) == \E i \in DOMAIN fn.blocks[b] : fn.blocks[b][i].id = id
getParent(fn, id) == CHOOSE b \in BlockIds(fn) : HasInst(fn, b, id)
PosOf(fn, id) ==
  CHOOSE i \in DOMAIN fn.blocks[getParent(fn, id)] : fn.blocks[getParent(fn, id)][i].id = id
InstOf(fn, id) == fn.blocks[getParent(fn, id)][PosOf(fn, id)]
Exists(fn, id) == \E b \in BlockIds(fn) : HasInst(fn, b, id)

(* position of the first instruction of b that is no phi *)
FirstNonPHIPos(fn, b) ==
  CHOOSE i \in DOMAIN fn.blocks[b] :
    /\ fn.blocks[b][i].op # "phi"
    /\ \A j \in 1..(i - 1) : fn.blocks[b][j].op = "phi"
getTerminatorPt(fn, b) == Terminator(fn, b).id
getFirstInsertionPt(fn, b) == fn.blocks[b][FirstNonPHIPos(fn, b)].id

(* IRBuilder at Point: the instructions go right before instruction Point *)
InsertBefore(fn, Point, insts) ==
  LET b == getParent(fn, Point)
      p == PosOf(fn, Point)
  IN [fn EXCEPT !.blocks[b] =
        SubSeq(@, 1, p - 1) \o insts \o SubSeq(@, p, Len(@))]

AllInsts(fn) == UNION {Range(fn.blocks[b]) : b \in BlockIds(fn)}

(* every instruction i of fn becomes f[i] *)
MapInst(fn, f) ==
  [fn EXCEPT !.blocks =
     AsSeq([b \in DOMAIN fn.blocks |->
              AsSeq([i \in DOMAIN fn.blocks[b] |-> f[fn.blocks[b][i]]])])]

SetInst(fn, id, new) ==
  [fn EXCEPT !.blocks[getParent(fn, id)][PosOf(fn, id)] = new]

(* I->eraseFromParent() *)
EraseInst(fn, id) ==
  LET b == getParent(fn, id)
      p == PosOf(fn, id)
  IN [fn EXCEPT !.blocks[b] = SubSeq(@, 1, p - 1) \o SubSeq(@, p + 1, Len(@))]

ReplaceArg(args, old, new) ==
  AsSeq([k \in DOMAIN args |-> IF args[k] = old THEN new ELSE args[k]])

(***************************************************************************)
(* splitAt(X, name): returns [fn, One, Two]                                *)
(***************************************************************************)
splitAt(fn, X) ==
  LET Two == getParent(fn, X)
      pos == PosOf(fn, X)
      One == Len(fn.blocks) + 1
      BR  == Br(fn.nid, Two)
      moved == [fn EXCEPT
                  !.blocks = Append([@ EXCEPT ![Two] = SubSeq(@, pos, Len(@))],
                                    SubSeq(fn.blocks[Two], 1, pos - 1) \o <<BR>>),
                  !.nid = @ + 1]
      toChange == {moved.blocks[BB][Len(moved.blocks[BB])].id :
                     BB \in predecessors(moved, Two) \ {One}}
      fix(i) == IF i.id \in toChange
                THEN [i EXCEPT !.args = ReplaceArg(@, BV(Two), BV(One))]
                ELSE i
  IN [fn |-> MapInst(moved, [i \in AllInsts(moved) |-> fix(i)]), One |-> One, Two |-> Two]

(***************************************************************************)
(* copyPHIsFromPred(BB)                                                    *)
(***************************************************************************)
PhisOf(fn, b) == SelectSeq(fn.blocks[b], LAMBDA i : i.op = "phi")

RECURSIVE copyPHIs(_, _, _, _)
copyPHIs(fn, BB, Pred, phis) ==
  IF phis = <<>> THEN fn
  ELSE LET P    == Head(phis)
           PhiC == Phi(fn.nid, <<IV(P.id)>>, <<Pred>>)
           (* Phi->replaceUsesOutsideBlock(PhiC, Pred) *)
           outside == UNION {{fn.blocks[b][i].id : i \in DOMAIN fn.blocks[b]} :
                               b \in BlockIds(fn) \ {Pred}}
           repl(i) == IF i.id \in outside
                      THEN [i EXCEPT !.args = ReplaceArg(@, IV(P.id), IV(PhiC.id))]
                      ELSE i
           f1 == MapInst(fn, [i \in AllInsts(fn) |-> repl(i)])
           f2 == InsertBefore(f1, getFirstInsertionPt(f1, BB), <<PhiC>>)
       IN copyPHIs([f2 EXCEPT !.nid = @ + 1], BB, Pred, Tail(phis))

copyPHIsFromPred(fn, BB) ==
  LET Pred == CHOOSE B \in predecessors(fn, BB) : TRUE
  IN copyPHIs(fn, BB, Pred, PhisOf(fn, Pred))

(***************************************************************************)
(* cloneRegion(BeginWith, EndBefore): returns                              *)
(* [fn, HeadBr, BRFuse, BRFuseClone, Head, Begin, Fuse, End, clones]       *)
(***************************************************************************)
(* clones.find(v): the clone when v has one, else v itself *)
CloneOr(clones, v) == IF v \in DOMAIN clones THEN clones[v] ELSE v

(* the operand indices of a fresh clone that have no clone yet *)
RECURSIVE Pending(_, _, _, _)
Pending(args, k, clones, ic) ==
  IF k > Len(args) THEN <<>>
  ELSE (IF args[k] \in DOMAIN clones THEN <<>> ELSE <<[i |-> k, ic |-> ic]>>)
       \o Pending(args, k + 1, clones, ic)

(* for (Instruction &I : *C): clone I into Cc; st is [fn, clones, cleanup] *)
RECURSIVE cloneInsts(_, _, _)
cloneInsts(st, insts, Cc) ==
  IF insts = <<>> THEN st
  ELSE LET I  == Head(insts)
           Ic == [I EXCEPT !.id = st.fn.nid,
                           !.args = AsSeq([k \in DOMAIN I.args |->
                                             CloneOr(st.clones, I.args[k])])]
       IN cloneInsts(
            [fn |-> [st.fn EXCEPT !.blocks[Cc] = Append(@, Ic), !.nid = @ + 1],
             clones |-> MapInsert(st.clones, IV(I.id), IV(Ic.id)),
             cleanup |-> st.cleanup \o Pending(I.args, 1, st.clones, Ic.id)],
            Tail(insts), Cc)

(* the bfs over the region: q the queue, vis the visited set *)
RECURSIVE cloneBlocks(_, _, _, _)
cloneBlocks(st, q, vis, End) ==
  IF q = <<>> THEN st
  ELSE LET C == Head(q)
       IN IF C = End \/ C \in vis THEN cloneBlocks(st, Tail(q), vis, End)
          ELSE LET Cc == Len(st.fn.blocks) + 1
                   s1 == [fn |-> [st.fn EXCEPT !.blocks = Append(@, <<>>)],
                          clones |-> MapInsert(st.clones, BV(C), BV(Cc)),
                          cleanup |-> st.cleanup]
                   s2 == cloneInsts(s1, st.fn.blocks[C], Cc)
               IN cloneBlocks(s2, Tail(q) \o successors(st.fn, C), vis \cup {C}, End)

(* operandCleanup: the operands that had no clone when their user was cloned *)
operandCleanupNone(fn, clones, cleanup) == fn
operandCleanup(fn, clones, cleanup) ==
  LET fix(i) ==
        [i EXCEPT !.args =
           AsSeq([k \in DOMAIN i.args |->
                    IF [i |-> k, ic |-> i.id] \in Range(cleanup)
                    THEN CloneOr(clones, i.args[k]) ELSE i.args[k]])]
  IN MapInst(fn, [i \in AllInsts(fn) |-> fix(i)])

(* incoming blocks of the cloned phi nodes *)
phiBlocksCleanup(fn, clones) ==
  LET cloned == {clones[v].n : v \in {w \in DOMAIN clones : w.k = "inst"}}
      fix(i) ==
        IF i.op = "phi" /\ i.id \in cloned
        THEN [i EXCEPT !.inb = AsSeq([k \in DOMAIN i.inb |->
                                        CloneOr(clones, BV(i.inb[k])).n])]
        ELSE i
  IN MapInst(fn, [i \in AllInsts(fn) |-> fix(i)])

(* Phi->getIncomingValueForBlock(B) *)
getIncomingValueForBlock(phi, B) ==
  phi.args[CHOOSE k \in DOMAIN phi.inb :
             phi.inb[k] = B /\ \A j \in 1..(k - 1) : phi.inb[j] # B]

(* the incoming values a phi of End gets: the loop runs over the blocks    *)
(* the phi had when the loop began                                         *)
addClonedIncomingNone(phi, orig, k, clones) == phi
RECURSIVE addClonedIncoming(_, _, _, _)
addClonedIncoming(phi, orig, k, clones) ==
  IF k > Len(orig.inb) THEN phi
  ELSE LET B == orig.inb[k]
       IN IF BV(B) \in DOMAIN clones
          THEN addClonedIncoming(
                 [phi EXCEPT
                    !.args = Append(@, CloneOr(clones, getIncomingValueForBlock(phi, B))),
                    !.inb = Append(@, clones[BV(B)].n)],
                 orig, k + 1, clones)
          ELSE addClonedIncoming(phi, orig, k + 1, clones)

fixEndPhis(fn, End, clones) ==
  [fn EXCEPT !.blocks[End] =
     AsSeq([i \in DOMAIN fn.blocks[End] |->
              IF fn.blocks[End][i].op = "phi"
              THEN addClonedIncoming(fn.blocks[End][i], fn.blocks[End][i], 1, clones)
              ELSE fn.blocks[End][i]])]

(* the head branch, then the phis of End; p1, p2 the two splits, st the    *)
(* bfs result, f5 the function after the clean-ups                         *)
cloneRegionHeadBr(p1, p2, st, f5) ==
  LET HeadSucc == successors(f5, p1.One)[1]
      HeadSuccClone == st.clones[BV(HeadSucc)].n
      HeadBr == CondBr(f5.nid, CV(0), HeadSucc, HeadSuccClone)
  IN [fn |-> fixEndPhis([f5 EXCEPT !.blocks[p1.One] = SubSeq(@, 1, Len(@) - 1) \o <<HeadBr>>,
                                   !.nid = @ + 1],
                        p2.Two, st.clones),
      HeadBr |-> f5.nid,
      BRFuse |-> Terminator(p2.fn, p2.One).id,
      BRFuseClone |-> st.clones[IV(Terminator(p2.fn, p2.One).id)].n,
      Head |-> p1.One, Begin |-> p1.Two, Fuse |-> p2.One, End |-> p2.Two,
      clones |-> st.clones]

cloneRegionCleanup(p1, p2, st) ==
  cloneRegionHeadBr(p1, p2, st,
    phiBlocksCleanup(operandCleanup(st.fn, st.clones, st.cleanup), st.clones))

cloneRegionBfs(p1, p2) ==
  cloneRegionCleanup(p1, p2,
    cloneBlocks([fn |-> copyPHIsFromPred(p2.fn, p2.Two), clones |-> <<>>, cleanup |-> <<>>],
                <<p1.Two>>, {}, p2.Two))

cloneRegionSplit(p1, EndBefore) == cloneRegionBfs(p1, splitAt(p1.fn, EndBefore))

cloneRegion(fn, BeginWith, EndBefore) == cloneRegionSplit(splitAt(fn, BeginWith), EndBefore)

(***************************************************************************)
(* Loop info.  LI is a function from loop ids to [parent, header, blocks]; *)
(* it is computed before the pass and never updated, while the preheader   *)
(* and exit block of a loop are read off the current CFG.                  *)
(***************************************************************************)
Loops(LI) == DOMAIN LI

RECURSIVE LoopAncestors(_, _)
(* L and the loops around it *)
LoopAncestors(LI, L) ==
  IF L = Null THEN {} ELSE {L} \cup LoopAncestors(LI, LI[L].parent)

(* LI.getLoopFor(BB) and its parents *)
LoopsContaining(LI, BB) == {L \in Loops(LI) : BB \in LI[L].blocks}

getLoopsInNest(LI, L) ==
  SelectSeq(AsSeq([i \in 1..Cardinality(Loops(LI)) |-> i]),
            LAMBDA x : x \in Loops(LI) /\ x # L /\ L \in LoopAncestors(LI, x))

getSubLoops(LI, L) ==
  SelectSeq(AsSeq([i \in 1..Cardinality(Loops(LI)) |-> i]),
            LAMBDA x : x \in Loops(LI) /\ LI[x].parent = L)

(* Loop::getLoopPreheader: the only predecessor of the header outside the  *)
(* loop, when the header is its only successor                             *)
getLoopPreheader(fn, LI, L) ==
  LET outs == predecessors(fn, LI[L].header) \ LI[L].blocks
  IN IF Cardinality(outs) # 1 THEN Null
     ELSE LET Out == CHOOSE b \in outs : TRUE
          IN IF Len(successors(fn, Out)) = 1 THEN Out ELSE Null

getExitBlocks(fn, LI, L) ==
  UNION {Range(successors(fn, b)) \ LI[L].blocks : b \in LI[L].blocks}

getSingleExitBlock(fn, LI, L) ==
  LET exits == getExitBlocks(fn, LI, L)
  IN IF Cardinality(exits) = 1 THEN CHOOSE b \in exits : TRUE ELSE Null

isValidLoop(fn, LI, L) ==
  ~(getLoopPreheader(fn, LI, L) = Null \/ getSingleExitBlock(fn, LI, L) = Null)

(***************************************************************************)
(* The affine-access analysis (AAA).  An access is                         *)
(* [isWrite, sites, tys, home, dims, base, step, rep, lb, ub, conflicts]:  *)
(* sites its loads/stores, tys their element types, home the innermost     *)
(* loop around it, dims[L] = loopToDimension(L) for the loops it can be    *)
(* expanded in, base/step/rep the expression sizes of getBaseAddr, getStep *)
(* and getRep, lb/ub the value its address range expands to, conflicts[L]  *)
(* the set of [acc, kind] it reports for L.                                *)
(***************************************************************************)
NUM_SSR == 3
SSR_MAX_DIM == 4
SSR_SCRATCHPAD_BEGIN == 1048576
SSR_SCRATCHPAD_END == 1179648
EST_LOOP_TC == 25
EST_MUL_COST == 3
EST_MEMOP_COST == 2

loopToDimension(A, L) == A.dims[L]

RECURSIVE NthParent(_, _, _)
NthParent(LI, L, n) == IF n = 0 THEN L ELSE NthParent(LI, LI[L].parent, n - 1)

(* A->getLoop(d): dimension 1 is the innermost loop *)
getLoop(LI, A, d) == NthParent(LI, A.home, d - 1)

(* the constant trip count of A->getRep(d), or -1 when it is no constant *)
RepConst(LI, tc, A, d) == tc[getLoop(LI, A, d)]

RECURSIVE ExpandCostDims(_, _, _)
ExpandCostDims(A, i, dim) ==
  IF i >= dim THEN 0
  ELSE A.step[i] + A.rep[i] + EST_MUL_COST + (IF i > 1 THEN 1 ELSE 0)
       + ExpandCostDims(A, i + 1, dim)

getEstExpandCost(A, dim) == A.base + ExpandCostDims(A, 1, dim)

(* The int gain is held as g = [gain, ub]: gain the value when every       *)
(* signed overflow wraps, ub whether a signed overflow happened.           *)
(* gain -= x and gain += x with x an int; gain -= n with n unsigned, which *)
(* is computed in unsigned arithmetic and wraps by definition              *)
SubInt(g, x) == [gain |-> IntSub(g.gain, x), ub |-> g.ub \/ SubOverflows(g.gain, x)]
AddInt(g, x) == [gain |-> IntAdd(g.gain, x), ub |-> g.ub \/ AddOverflows(g.gain, x)]
SubUnsigned(g, n) == [gain |-> ToInt(USub(ToUnsigned(g.gain), U32(n))), ub |-> g.ub]

(* loopTC for d = dim down to 1, in this order *)
loopTCs(LI, tc, A, dim) ==
  [n \in 1..dim |-> IF RepConst(LI, tc, A, dim + 1 - n) >= 0
                    THEN RepConst(LI, tc, A, dim + 1 - n) ELSE EST_LOOP_TC]

(* reps = std::max(reps * loopTC, reps), on r = [reps, ub] *)
RepStepNoMax(r, loopTC) ==
  [reps |-> IntMul(r.reps, loopTC), ub |-> r.ub \/ MulOverflows(r.reps, loopTC)]
RepStep(r, loopTC) ==
  [reps |-> IF IntMul(r.reps, loopTC) > r.reps THEN IntMul(r.reps, loopTC) ELSE r.reps,
   ub |-> r.ub \/ MulOverflows(r.reps, loopTC)]

(* reps after the first n turns of the loop over d *)
RECURSIVE RunningProduct(_, _)
RunningProduct(tcs, n) ==
  IF n = 0 THEN [reps |-> 1, ub |-> FALSE]
  ELSE RepStep(RunningProduct(tcs, n - 1), tcs[n])

TripProduct(LI, tc, A, dim) == RunningProduct(loopTCs(LI, tc, A, dim), dim)

(* gain += EST_MEMOP_COST * reps *)
AddMemops(memop, g, r) ==
  AddInt([gain |-> g.gain, ub |-> g.ub \/ r.ub \/ MulOverflows(memop, r.reps)],
         IntMul(memop, r.reps))

(* one conflict p of A in the switch of getEstGain *)
ConflictCost(AAA, accs, vis, L, c, badAs, g) ==
  IF (IF c.kind = "Bad" THEN badAs ELSE c.kind) = "MustNotIntersect" /\ c.acc \notin vis
  THEN SubUnsigned(
         IF c.acc \notin Range(accs)
         THEN SubInt(g, getEstExpandCost(AAA[c.acc], loopToDimension(AAA[c.acc], L)))
         ELSE g, 4)
  ELSE g

RECURSIVE SumConflicts(_, _, _, _, _, _, _)
SumConflicts(AAA, accs, vis, L, cs, badAs, g) ==
  IF cs = {} THEN g
  ELSE SumConflicts(AAA, accs, vis, L, cs \ {CHOOSE x \in cs : TRUE}, badAs,
                    ConflictCost(AAA, accs, vis, L, CHOOSE x \in cs : TRUE, badAs, g))

(* the costs of the k-th access: expansion, intersection checks, TCDM check *)
AccessCosts(AAA, cfg, accs, k, L, badAs, g) ==
  IF ~cfg.SSRNoTCDMCheck
  THEN SubUnsigned(
         IF ~cfg.SSRNoIntersectCheck
         THEN SumConflicts(AAA, accs, {accs[j] : j \in 1..k}, L, AAA[accs[k]].conflicts[L],
                           badAs, SubInt(g, getEstExpandCost(AAA[accs[k]],
                                           loopToDimension(AAA[accs[k]], L))))
         ELSE SubInt(g, getEstExpandCost(AAA[accs[k]], loopToDimension(AAA[accs[k]], L))),
         4)
  ELSE IF ~cfg.SSRNoIntersectCheck
       THEN SumConflicts(AAA, accs, {accs[j] : j \in 1..k}, L, AAA[accs[k]].conflicts[L],
                         badAs, SubInt(g, getEstExpandCost(AAA[accs[k]],
                                         loopToDimension(AAA[accs[k]], L))))
       ELSE SubInt(g, getEstExpandCost(AAA[accs[k]], loopToDimension(AAA[accs[k]], L)))

(* the loop body of getEstGain for Accs[k..], entered with gain g; memop   *)
(* is EST_MEMOP_COST                                                       *)
RECURSIVE GainOfAccs(_, _, _, _, _, _, _, _, _, _)
GainOfAccs(memop, AAA, LI, cfg, tc, accs, k, L, badAs, g) ==
  IF k > Len(accs) THEN g
  ELSE LET after == AddMemops(memop, AccessCosts(AAA, cfg, accs, k, L, badAs, g),
                              TripProduct(LI, tc, AAA[accs[k]],
                                          loopToDimension(AAA[accs[k]], L)))
       IN (* gain holds its value after Accs[k] before Accs[k + 1] is costed *)
          CASE after.ub \in BOOLEAN ->
              GainOfAccs(memop, AAA, LI, cfg, tc, accs, k + 1, L, badAs, after)

contLoops(AAA, LI, accs, L) ==
  UNION {{getLoop(LI, AAA[accs[k]], d) : d \in 1..loopToDimension(AAA[accs[k]], L)} :
           k \in DOMAIN accs}

(* getEstGain with EST_MEMOP_COST = memop.  badAs: the kind a Bad conflict *)
(* is handled as when the build goes on past assert(false) and             *)
(* llvm_unreachable                                                        *)
getEstGainWith(memop, AAA, LI, cfg, tc, accs, L, badAs) ==
  IF ~cfg.SSRNoBoundCheck
  THEN SubUnsigned(GainOfAccs(memop, AAA, LI, cfg, tc, accs, 1, L, badAs,
                              [gain |-> 0, ub |-> FALSE]),
                   2 * Cardinality(contLoops(AAA, LI, accs, L)))
  ELSE GainOfAccs(memop, AAA, LI, cfg, tc, accs, 1, L, badAs, [gain |-> 0, ub |-> FALSE])

getEstGain(AAA, LI, cfg, tc, accs, L, badAs) ==
  getEstGainWith(EST_MEMOP_COST, AAA, LI, cfg, tc, accs, L, badAs)

(* case AffAccConflict::Bad is reached: assert(false), then llvm_unreachable *)
ReachesBadConflict(AAA, cfg, accs, L) ==
  /\ ~cfg.SSRNoIntersectCheck
  /\ \E k \in DOMAIN accs : \E c \in AAA[accs[k]].conflicts[L] : c.kind = "Bad"

(* CHECK_TYPE on every access site, and the dimension limit *)
isValidDimOnly(A, L) == loopToDimension(A, L) <= SSR_MAX_DIM
isValid(A, L) ==
  /\ \A i \in DOMAIN A.tys : A.tys[i] = "double"
  /\ loopToDimension(A, L) <= SSR_MAX_DIM

(* comp of visitLoop *)
compDescending(AAA, L, a, b) ==
  LET dimA == loopToDimension(AAA[a], L)
      dimB == loopToDimension(AAA[b], L)
  IN dimA > dimB \/ (dimA = dimB /\ (~AAA[a].isWrite /\ AAA[b].isWrite))
comp(AAA, L, a, b) ==
  LET dimA == loopToDimension(AAA[a], L)
      dimB == loopToDimension(AAA[b], L)
  IN dimA < dimB \/ (dimA = dimB /\ (~AAA[a].isWrite /\ AAA[b].isWrite))

Perms(S) ==
  {p \in [1..Cardinality(S) -> S] : \A i, j \in DOMAIN p : i # j => p[i] # p[j]}

(* the orders std::sort may leave valid in: elements that comp does not    *)
(* order may come out either way                                           *)
SortedByAny(AAA, L, valid) == Perms(Range(valid))
SortedBy(AAA, L, valid) ==
  {p \in Perms(Range(valid)) :
     \A i, j \in DOMAIN p : i < j => ~comp(AAA, L, p[j], p[i])}

(* for (i = 0; i < NUM_SSR && i < valid.size(); i++) l.push_back(valid[i]) *)
TakeCandidatesAll(sorted) == sorted
TakeCandidates(sorted) ==
  SubSeq(sorted, 1, IF Len(sorted) < NUM_SSR THEN Len(sorted) ELSE NUM_SSR)

(* unsigned val = (unsigned)std::max(0, gain) *)
GainToValue(gain) == U32(IF 0 > gain THEN 0 ELSE gain)

(***************************************************************************)
(* IRBuilder with the constant folder: an instruction is created unless    *)
(* the operands fold.  Each returns [fn, v]: the function and the value.   *)
(***************************************************************************)
Bool(b) == CV(IF b THEN 1 ELSE 0)

CreateICmpULT(fn, Point, L, R) ==
  IF L.k = "const" /\ R.k = "const" THEN [fn |-> fn, v |-> Bool(L.n < R.n)]
  ELSE [fn |-> [InsertBefore(fn, Point, <<Inst(fn.nid, "icmp_ult", <<L, R>>)>>)
                  EXCEPT !.nid = @ + 1],
        v |-> IV(fn.nid)]
CreateICmpULE(fn, Point, L, R) ==
  IF L.k = "const" /\ R.k = "const" THEN [fn |-> fn, v |-> Bool(L.n <= R.n)]
  ELSE [fn |-> [InsertBefore(fn, Point, <<Inst(fn.nid, "icmp_ule", <<L, R>>)>>)
                  EXCEPT !.nid = @ + 1],
        v |-> IV(fn.nid)]

CreateAnd(fn, Point, L, R) ==
  IF R.k = "const" /\ R.n = 1 THEN [fn |-> fn, v |-> L]
  ELSE IF R.k = "const" /\ L.k = "const" THEN [fn |-> fn, v |-> Bool(L.n = 1 /\ R.n = 1)]
  ELSE [fn |-> [InsertBefore(fn, Point, <<Inst(fn.nid, "and", <<L, R>>)>>)
                  EXCEPT !.nid = @ + 1],
        v |-> IV(fn.nid)]

(***************************************************************************)
(* GenerateTCDMCheck(E, Point)                                             *)
(***************************************************************************)
GenerateTCDMCheck(fn, E, Point) ==
  LET c1 == CreateICmpULE(fn, Point, CV(SSR_SCRATCHPAD_BEGIN), E.LowerBound)
      c2 == CreateICmpULE(c1.fn, Point, E.UpperBound, CV(SSR_SCRATCHPAD_END))
  IN CreateAnd(c2.fn, Point, c1.v, c2.v)

(***************************************************************************)
(* AffineAccess::expandAllAt(accs, L, PhT, Cond, ...): the expansion code  *)
(* of each access goes before PhT (one "expand" instruction stands for the *)
(* address, steps, reps and ranges of one access, "lower" and "upper" for  *)
(* the two ends of its address range when they are no constants), then the *)
(* checks, whose conjunction is Cond: the constant true or false when the  *)
(* checks fold (always true when no check is asked for), else an           *)
(* instruction.                                                            *)
(* Returns [fn, exp, Cond].                                                *)
(***************************************************************************)
RECURSIVE expandAccs(_, _, _, _, _, _)
expandAccs(fn, AAA, accs, k, L, PhT) ==
  IF k > Len(accs) THEN [fn |-> fn, exp |-> <<>>]
  ELSE LET A    == AAA[accs[k]]
           dim  == loopToDimension(A, L)
           e    == IV(fn.nid)
           E    == [Access |-> accs[k], dim |-> dim, Addr |-> e,
                    Steps |-> AsSeq([d \in 1..dim |-> e]),
                    Reps |-> AsSeq([d \in 1..dim |-> e]),
                    PrefixSumRanges |-> AsSeq([d \in 1..(dim - 1) |-> e]),
                    LowerBound |-> IF A.lb.k = "const" THEN A.lb ELSE IV(fn.nid + 1),
                    UpperBound |-> IF A.ub.k = "const" THEN A.ub ELSE IV(fn.nid + 2)]
           f1   == [InsertBefore(fn, PhT,
                      <<Inst(fn.nid, "expand", <<>>)>>
                      \o (IF A.lb.k = "const" THEN <<>>
                          ELSE <<Inst(fn.nid + 1, "lower", <<A.lb>>)>>)
                      \o (IF A.ub.k = "const" THEN <<>>
                          ELSE <<Inst(fn.nid + 2, "upper", <<A.ub>>)>>))
                      EXCEPT !.nid = @ + 3]
           rest == expandAccs(f1, AAA, accs, k + 1, L, PhT)
       IN [fn |-> rest.fn, exp |-> <<E>> \o rest.exp]

AnalysisCondKinds(cfg) ==
  IF cfg.SSRNoIntersectCheck /\ cfg.SSRNoBoundCheck THEN {"true"}
  ELSE {"true", "false", "dyn"}

expandAllAt(fn, AAA, accs, L, PhT, kind) ==
  LET x == expandAccs(fn, AAA, accs, 1, L, PhT)
  IN IF kind = "dyn"
     THEN [fn |-> [InsertBefore(x.fn, PhT, <<Inst(x.fn.nid, "checks", <<>>)>>)
                     EXCEPT !.nid = @ + 1],
           exp |-> x.exp, Cond |-> IV(x.fn.nid)]
     ELSE [fn |-> x.fn, exp |-> x.exp, Cond |-> Bool(kind = "true")]

(***************************************************************************)
(* expandInLoop(accs, L, AAA, Cond): returns [fn, exp, Cond]               *)
(***************************************************************************)
RECURSIVE tcdmChecks(_, _, _, _, _)
tcdmChecks(fn, exp, k, PhT, Cond) ==
  IF k > Len(exp) THEN [fn |-> fn, Cond |-> Cond]
  ELSE LET c == GenerateTCDMCheck(fn, exp[k], PhT)
           a == CreateAnd(c.fn, PhT, Cond, c.v)
       IN tcdmChecks(a.fn, exp, k + 1, PhT, a.v)

expandInLoopAsserts(accs) == accs # <<>> /\ Len(accs) <= NUM_SSR

(* the TCDM checks ANDed to the Cond of x, the result of expandAllAt *)
withTCDMChecks(x, PhT) ==
  [fn |-> tcdmChecks(x.fn, x.exp, 1, PhT, x.Cond).fn, exp |-> x.exp,
   Cond |-> tcdmChecks(x.fn, x.exp, 1, PhT, x.Cond).Cond, Checks |-> x.Cond]

withoutTCDMChecks(x, PhT) == [fn |-> x.fn, exp |-> x.exp, Cond |-> x.Cond, Checks |-> x.Cond]

(* returns [fn, exp, Cond, Checks]: Checks is Cond as it was before the    *)
(* TCDM checks                                                             *)
expandAt(fn, AAA, cfg, accs, L, PhT, kind) ==
  IF ~cfg.SSRNoTCDMCheck
  THEN withTCDMChecks(expandAllAt(fn, AAA, accs, L, PhT, kind), PhT)
  ELSE withoutTCDMChecks(expandAllAt(fn, AAA, accs, L, PhT, kind), PhT)

expandInLoop(fn, LI, AAA, cfg, accs, L, kind) ==
  expandAt(fn, AAA, cfg, accs, L, Terminator(fn, getLoopPreheader(fn, LI, L)).id, kind)

(***************************************************************************)
(* GenerateSSRSetup(E, dmid, Point); lp is the loop the stream is for      *)
(***************************************************************************)
GenerateSSRSetupAsserts(E) == E.dim <= SSR_MAX_DIM

(* the bound/stride setups of dimensions i+1 .. dim, before Point *)
boundStrideSetupsNone(fn, E, dmid, i, Point, lp) == fn
RECURSIVE boundStrideSetups(_, _, _, _, _, _)
boundStrideSetups(fn, E, dmid, i, Point, lp) ==
  IF i >= E.dim THEN fn
  ELSE LET sub    == Inst(fn.nid, "sub", <<E.Steps[i + 1], E.PrefixSumRanges[i]>>)
           f1     == IF i > 0
                     THEN [InsertBefore(fn, Point, <<sub>>) EXCEPT !.nid = @ + 1]
                     ELSE fn
           Stride == IF i > 0 THEN IV(sub.id) ELSE E.Steps[i + 1]
           call   == Ssr(f1.nid, "setup_bound_stride", dmid, i + 1,
                         <<E.Reps[i + 1], Stride>>, lp)
       IN boundStrideSetups([InsertBefore(f1, Point, <<call>>) EXCEPT !.nid = @ + 1],
                            E, dmid, i + 1, Point, lp)

(* a store becomes a push of the stored value *)
RECURSIVE pushSites(_, _, _, _)
pushSites(fn, sites, dmid, lp) ==
  IF sites = <<>> THEN fn
  ELSE LET I    == InstOf(fn, Head(sites))
           push == Ssr(fn.nid, "push", dmid, 0, <<I.args[1]>>, lp)
           f1   == [InsertBefore(fn, I.id, <<push>>) EXCEPT !.nid = @ + 1]
       IN pushSites(EraseInst(f1, I.id), Tail(sites), dmid, lp)

(* a load becomes a pop; ReplaceInstWithValue gives the load's uses to it *)
RECURSIVE popSites(_, _, _, _)
popSites(fn, sites, dmid, lp) ==
  IF sites = <<>> THEN fn
  ELSE LET I    == Head(sites)
           pop  == Ssr(fn.nid, "pop", dmid, 0, <<>>, lp)
           f1   == [InsertBefore(fn, I, <<pop>>) EXCEPT !.nid = @ + 1]
           rauw(i) == [i EXCEPT !.args = ReplaceArg(@, IV(I), IV(pop.id))]
       IN popSites(EraseInst(MapInst(f1, [i \in AllInsts(f1) |-> rauw(i)]), I),
                   Tail(sites), dmid, lp)

(* the repetition setup and the read/write setup with the base address *)
repAndBaseSetup(f2, A, E, dmid, Point, lp) ==
  [InsertBefore(f2, Point,
     <<Ssr(f2.nid, "setup_repetition", dmid, Len(A.sites) - 1, <<>>, lp),
       Ssr(f2.nid + 1, IF ~A.isWrite THEN "read_imm" ELSE "write_imm",
           dmid, E.dim - 1, <<E.Addr>>, lp)>>)
     EXCEPT !.nid = @ + 2]

rewriteSitesFirstOnly(f1, A, dmid, lp) ==
  IF A.isWrite THEN pushSites(f1, <<A.sites[1]>>, dmid, lp)
  ELSE popSites(f1, <<A.sites[1]>>, dmid, lp)
rewriteSites(f1, A, dmid, lp) ==
  IF A.isWrite THEN pushSites(f1, A.sites, dmid, lp) ELSE popSites(f1, A.sites, dmid, lp)

GenerateSSRSetup(fn, AAA, E, dmid, Point, lp) ==
  repAndBaseSetup(
    rewriteSites(boundStrideSetups(fn, E, dmid, 0, Point, lp), AAA[E.Access], dmid, lp),
    AAA[E.Access], E, dmid, Point, lp)

(* generateSSRBarrier(InsertBefore, dmid) *)
generateSSRBarrier(fn, Before, dmid, lp) ==
  [InsertBefore(fn, Before, <<Ssr(fn.nid, "barrier", dmid, 0, <<>>, lp)>>)
     EXCEPT !.nid = @ + 1]

(* generateSSREnDis(PhP, ExP) *)
generateSSREnDisNoDisable(fn, PhP, ExP, lp) ==
  [InsertBefore(fn, PhP, <<Ssr(fn.nid, "enable", -1, 0, <<>>, lp)>>) EXCEPT !.nid = @ + 1]
generateSSREnDis(fn, PhP, ExP, lp) ==
  LET f1 == [InsertBefore(fn, PhP, <<Ssr(fn.nid, "enable", -1, 0, <<>>, lp)>>)
               EXCEPT !.nid = @ + 1]
  IN [InsertBefore(f1, ExP, <<Ssr(f1.nid, "disable", -1, 0, <<>>, lp)>>)
        EXCEPT !.nid = @ + 1]

(***************************************************************************)
(* cloneAndSetup(PhT, ExP, Cond, exp)                                      *)
(***************************************************************************)
(* for (auto &E : exp) { GenerateSSRSetup(E, dmid++, PhT);                 *)
(*                       if (SSRBarrier) generateSSRBarrier(ExP, dmid); }  *)
FirstDmid == 0
RECURSIVE setupStreams(_, _, _, _, _, _, _, _)
setupStreams(fn, AAA, cfg, exp, dmid, PhT, ExP, lp) ==
  IF exp = <<>> THEN fn
  ELSE LET f1 == GenerateSSRSetup(fn, AAA, Head(exp), dmid, PhT, lp)
           f2 == IF cfg.SSRBarrier THEN generateSSRBarrier(f1, ExP, dmid + 1, lp) ELSE f1
       IN setupStreams(f2, AAA, cfg, Tail(exp), dmid + 1, PhT, ExP, lp)

cloneAndSetupAsserts(exp) == Len(exp) <= NUM_SSR

(* the guard is no ConstantInt: the region is cloned and ExP moves to the  *)
(* terminator of the block that jumps to the exit                          *)
setCondition(p, Cond) ==
  [fn |-> SetInst(p.fn, p.HeadBr, [InstOf(p.fn, p.HeadBr) EXCEPT !.args[1] = Cond]),
   ExP |-> p.BRFuse]

GuardedRegionNoCondition(fn, PhT, ExP, Cond) ==
  [fn |-> cloneRegion(fn, PhT, ExP).fn, ExP |-> cloneRegion(fn, PhT, ExP).BRFuse]
GuardedRegion(fn, PhT, ExP, Cond) == setCondition(cloneRegion(fn, PhT, ExP), Cond)

(* the setups, then the enable/disable pair; g is [fn, ExP] *)
setupAndEnDis(g, AAA, cfg, PhT, exp, lp) ==
  generateSSREnDis(setupStreams(g.fn, AAA, cfg, exp, FirstDmid, PhT, g.ExP, lp),
                   PhT, g.ExP, lp)

cloneAndSetupAlwaysGuarded(fn, AAA, cfg, PhT, ExP, Cond, exp, lp) ==
  IF Len(exp) = 0 THEN fn
  ELSE setupAndEnDis(GuardedRegion(fn, PhT, ExP, Cond), AAA, cfg, PhT, exp, lp)
cloneAndSetup(fn, AAA, cfg, PhT, ExP, Cond, exp, lp) ==
  IF Len(exp) = 0 THEN fn
  ELSE IF Cond.k = "const" /\ Cond.n = 0 THEN fn
  ELSE setupAndEnDis(IF Cond.k # "const" THEN GuardedRegion(fn, PhT, ExP, Cond)
                     ELSE [fn |-> fn, ExP |-> ExP],
                     AAA, cfg, PhT, exp, lp)

(***************************************************************************)
(* findLoopsWithSSR(F, LI)                                                 *)
(***************************************************************************)
riscSSRIntrinsics ==
  {"barrier", "disable", "enable", "setup_repetition", "pop", "push", "read",
   "read_imm", "write", "write_imm", "setup_1d_r", "setup_1d_w", "setup_bound_stride"}

HasOp(fn, BB, ops) == \E i \in DOMAIN fn.blocks[BB] : fn.blocks[BB][i].op \in ops

(* the pairs (BB2, marked) pushed for the successors of BB, and what the    *)
(* log keeps of them: how BB was taken off the worklist and whether it     *)
(* holds a stream_disable                                                  *)
succPairs(fn, BB, m) ==
  AsSeq([i \in DOMAIN successors(fn, BB) |-> <<successors(fn, BB)[i], m>>])

succLog(fn, BB, wasMarked, m) ==
  {[from |-> BB, to |-> successors(fn, BB)[i], marked |-> m, wasMarked |-> wasMarked,
    disable |-> HasOp(fn, BB, {"disable"})] : i \in DOMAIN successors(fn, BB)}

(* one turn of the while loop; w is [worklist, visUnmarked, visMarked,     *)
(* invalid, log, done]: done lists the pairs (BB, marked) whose turn got   *)
(* past the continue                                                       *)
ssrMarkedTurn(fn, LI, w, BB) ==
  [w EXCEPT !.worklist = Tail(@) \o succPairs(fn, BB, ~HasOp(fn, BB, {"disable"})),
            !.visMarked = @ \cup {BB},
            !.invalid = @ \cup LoopsContaining(LI, BB),
            !.log = @ \cup succLog(fn, BB, TRUE, ~HasOp(fn, BB, {"disable"})),
            !.done = Append(@, <<BB, TRUE>>)]

ssrStepMarkedTwice(fn, LI, w, BB) ==
  IF Cardinality({k \in DOMAIN w.done : w.done[k] = <<BB, TRUE>>}) >= 2
  THEN [w EXCEPT !.worklist = Tail(@)]
  ELSE ssrMarkedTurn(fn, LI, w, BB)
ssrStepMarked(fn, LI, w, BB) ==
  IF BB \in w.visMarked THEN [w EXCEPT !.worklist = Tail(@)]
  ELSE ssrMarkedTurn(fn, LI, w, BB)

ssrStepUnmarked(fn, LI, w, BB, m) ==
  IF BB \in w.visUnmarked THEN [w EXCEPT !.worklist = Tail(@)]
  ELSE [w EXCEPT !.worklist = Tail(@) \o (IF m THEN <<<<BB, TRUE>>>> ELSE <<>>)
                                     \o succPairs(fn, BB, m),
                 !.visUnmarked = @ \cup {BB},
                 !.invalid = @ \cup (IF HasOp(fn, BB, {"call_ssr"})
                                     THEN LoopsContaining(LI, BB) ELSE {}),
                 !.log = @ \cup succLog(fn, BB, FALSE, m),
                 !.done = Append(@, <<BB, FALSE>>)]

ssrStep(fn, LI, w) ==
  IF Head(w.worklist)[2]
  THEN ssrStepMarked(fn, LI, w, Head(w.worklist)[1])
  ELSE ssrStepUnmarked(fn, LI, w, Head(w.worklist)[1],
                       HasOp(fn, Head(w.worklist)[1], riscSSRIntrinsics \cup {"asm"}))

RECURSIVE ssrWalk(_, _, _)
ssrWalk(fn, LI, w) ==
  IF w.worklist = <<>> THEN w.invalid ELSE ssrWalk(fn, LI, ssrStep(fn, LI, w))

(* no scan is taken turn by turn *)
NoScan ==
  [worklist |-> <<>>, visUnmarked |-> {}, visMarked |-> {}, invalid |-> {}, log |-> {},
   done |-> <<>>]

(* the worklist holds the entry block, unmarked *)
ScanStart ==
  [worklist |-> <<<<1, FALSE>>>>, visUnmarked |-> {}, visMarked |-> {}, invalid |-> {},
   log |-> {}, done |-> <<>>]

findLoopsWithSSRCallsOnly(fn, LI) ==
  UNION {LoopsContaining(LI, b) : b \in {c \in BlockIds(fn) : HasOp(fn, c, {"call_ssr"})}}
findLoopsWithSSR(fn, LI) == ssrWalk(fn, LI, ScanStart)

(***************************************************************************)
(* SpecTree: a client that builds a tree with insertNode, then queries it  *)
(***************************************************************************)
NoFunction == [blocks |-> <<>>, attrs |-> {}, nid |-> 1]
NoWalk == [bb |-> 0, open |-> <<>>, ran |-> FALSE, bad |-> FALSE, nested |-> FALSE,
           other |-> FALSE, foreign |-> FALSE, done |-> FALSE]
LocalsInit ==
  /\ ssrInvalidLoops = {}
  /\ tIdx = 1
  /\ worklist = <<>>
  /\ possible = <<>>
  /\ bestLoops = <<>>
  /\ bIdx = 1
  /\ conds = <<>>
  /\ checks = <<>>
  /\ exps = <<>>
  /\ gains = <<>>
  /\ regions = <<>>
  /\ consulted = {}
  /\ changed = FALSE

InitTree ==
  /\ tree = EmptyTree
  /\ res = <<>>
  /\ tpc = "build"
  /\ pc = "idle"
  /\ F = NoFunction
  /\ F0 = NoFunction
  /\ flags = <<>>
  /\ inp = <<>>
  /\ LocalsInit
  /\ ret = ""
  /\ runs = 0
  /\ walk = NoWalk
  /\ scan = NoScan

(* insertNode(Node, value, Parent) with the assertions holding *)
TreeInsert ==
  /\ tpc = "build"
  /\ Cardinality(TreeNodes(tree)) < MaxNodes
  /\ \E value \in TreeValues, Parent \in TreeNodes(tree) \cup {Null} :
       LET Node == Cardinality(TreeNodes(tree)) + 1
       IN /\ insertNodeAsserts(tree, Node, Parent)
          /\ tree' = insertNode(tree, Node, value, Parent)
  /\ UNCHANGED <<res, tpc, runVars>>

TreeFindBest ==
  /\ tpc = "build"
  /\ res' = findBest(tree)
  /\ tpc' = "found"
  /\ UNCHANGED <<tree, runVars>>

NextTree == TreeInsert \/ TreeFindBest

SpecTree == InitTree /\ [][NextTree]_vars

(***************************************************************************)
(* The functions the pass is run on, in the form the passes scheduled      *)
(* before it leave them in (loop-simplify, LCSSA), with what LoopInfo and  *)
(* the affine-access analysis report for them.                             *)
(*   one:  a single-block loop with five accesses                          *)
(*   two:  a single-block loop with two accesses of two sites each         *)
(*   seq:  two loops in sequence, the exit of the first the preheader of   *)
(*         the second; seq_asm, seq_call: with inline assembly in the      *)
(*         first loop, with a call of an SSR function in the second        *)
(*   nest: a loop in a loop                                                *)
(***************************************************************************)
FnOne ==
  [blocks |-> <<
     << Br(1, 2) >>,
     << Phi(2, <<CV(0), IV(9)>>, <<1, 2>>),
        Inst(3, "load", <<AV(1)>>),
        Inst(4, "load", <<AV(2)>>),
        Inst(5, "fadd", <<IV(3), IV(4)>>),
        Inst(6, "store", <<IV(5), AV(3)>>),
        Inst(7, "store", <<IV(3), AV(4)>>),
        Inst(8, "load", <<AV(5)>>),
        Inst(9, "add", <<IV(2), IV(8)>>),
        CondBr(10, IV(9), 2, 3) >>,
     << Phi(11, <<IV(5)>>, <<2>>),
        Inst(12, "use", <<IV(11)>>),
        Ret(13) >> >>,
   attrs |-> {}, nid |-> 14]

(* a single-block loop that loads from one address twice and stores to    *)
(* one address twice, the second store the first loaded value              *)
FnTwo ==
  [blocks |-> <<
     << Br(1, 2) >>,
     << Phi(2, <<CV(0), IV(8)>>, <<1, 2>>),
        Inst(3, "load", <<AV(1)>>),
        Inst(4, "load", <<AV(1)>>),
        Inst(5, "fadd", <<IV(3), IV(4)>>),
        Inst(6, "store", <<IV(5), AV(2)>>),
        Inst(7, "store", <<IV(3), AV(2)>>),
        Inst(8, "add", <<IV(2), CV(1)>>),
        CondBr(9, IV(8), 2, 3) >>,
     << Phi(10, <<IV(4)>>, <<2>>),
        Inst(11, "use", <<IV(10)>>),
        Ret(12) >> >>,
   attrs |-> {}, nid |-> 13]

FnSeq ==
  [blocks |-> <<
     << Br(1, 2) >>,
     << Phi(2, <<CV(0), IV(4)>>, <<1, 2>>),
        Inst(3, "load", <<AV(1)>>),
        Inst(4, "fadd", <<IV(2), IV(3)>>),
        CondBr(5, IV(4), 2, 3) >>,
     << Phi(6, <<IV(4)>>, <<2>>),
        Br(7, 4) >>,
     << Phi(8, <<IV(6), IV(10)>>, <<3, 4>>),
        Inst(9, "load", <<AV(2)>>),
        Inst(10, "fadd", <<IV(8), IV(9)>>),
        CondBr(11, IV(10), 4, 5) >>,
     << Phi(12, <<IV(10)>>, <<4>>),
        Inst(13, "use", <<IV(12)>>),
        Ret(14) >> >>,
   attrs |-> {}, nid |-> 15]

FnNest ==
  [blocks |-> <<
     << Br(1, 2) >>,
     << Phi(2, <<CV(0), IV(9)>>, <<1, 4>>),
        Br(3, 3) >>,
     << Phi(4, <<CV(0), IV(6)>>, <<2, 3>>),
        Inst(5, "load", <<AV(1)>>),
        Inst(6, "fadd", <<IV(4), IV(5)>>),
        CondBr(7, IV(6), 3, 4) >>,
     << Phi(8, <<IV(6)>>, <<3>>),
        Inst(9, "add", <<IV(2), CV(1)>>),
        Inst(10, "store", <<IV(8), AV(2)>>),
        CondBr(11, IV(9), 2, 5) >>,
     << Phi(12, <<IV(8)>>, <<4>>),
        Inst(13, "use", <<IV(12)>>),
        Ret(14) >> >>,
   attrs |-> {}, nid |-> 15]

(* five loops in one another, a load in the innermost and a store in the   *)
(* fourth                                                                  *)
FnDeep ==
  [blocks |-> <<
     << Br(1, 2) >>,
     << Phi(2, <<CV(0), IV(22)>>, <<1, 10>>),
        Br(3, 3) >>,
     << Phi(4, <<CV(0), IV(20)>>, <<2, 9>>),
        Br(5, 4) >>,
     << Phi(6, <<CV(0), IV(18)>>, <<3, 8>>),
        Br(7, 5) >>,
     << Phi(8, <<CV(0), IV(16)>>, <<4, 7>>),
        Br(9, 6) >>,
     << Phi(10, <<CV(0), IV(12)>>, <<5, 6>>),
        Inst(11, "load", <<AV(1)>>),
        Inst(12, "fadd", <<IV(10), IV(11)>>),
        CondBr(13, IV(12), 6, 7) >>,
     << Phi(14, <<IV(12)>>, <<6>>),
        Inst(15, "store", <<IV(14), AV(2)>>),
        Inst(16, "add", <<IV(8), CV(1)>>),
        CondBr(17, IV(16), 5, 8) >>,
     << Inst(18, "add", <<IV(6), CV(1)>>),
        CondBr(19, IV(18), 4, 9) >>,
     << Inst(20, "add", <<IV(4), CV(1)>>),
        CondBr(21, IV(20), 3, 10) >>,
     << Inst(22, "add", <<IV(2), CV(1)>>),
        CondBr(23, IV(22), 2, 11) >>,
     << Phi(24, <<IV(22)>>, <<10>>),
        Inst(25, "use", <<IV(24)>>),
        Ret(26) >> >>,
   attrs |-> {}, nid |-> 27]

Fixtures == {"one", "two", "seq", "seq_asm", "seq_call", "seq_ssr", "nest", "deep"}

FixtureF(name) ==
  CASE name = "one"      -> FnOne
    [] name = "two"      -> FnTwo
    [] name = "seq"      -> FnSeq
    [] name = "seq_asm"  -> [InsertBefore(FnSeq, 3, <<Inst(15, "asm", <<>>)>>)
                               EXCEPT !.nid = 16]
    [] name = "seq_call" -> [InsertBefore(FnSeq, 3, <<Inst(15, "call_ssr", <<>>)>>)
                               EXCEPT !.nid = 16]
    [] name = "seq_ssr"  -> [InsertBefore(
                                 InsertBefore(
                                   InsertBefore(FnSeq, 1, <<Inst(15, "enable", <<>>)>>),
                                   3, <<Inst(16, "pop", <<>>)>>),
                                 7, <<Inst(17, "disable", <<>>)>>)
                               EXCEPT !.nid = 18]
    [] name = "nest"     -> FnNest
    [] name = "deep"     -> FnDeep

FixtureLI(name) ==
  CASE name \in {"one", "two"} -> (1 :> [parent |-> Null, header |-> 2, blocks |-> {2}])
    [] name = "nest" -> (1 :> [parent |-> Null, header |-> 2, blocks |-> {2, 3, 4}])
                        @@ (2 :> [parent |-> 1, header |-> 3, blocks |-> {3}])
    [] name = "deep" -> (1 :> [parent |-> Null, header |-> 2, blocks |-> 2..10])
                        @@ (2 :> [parent |-> 1, header |-> 3, blocks |-> 3..9])
                        @@ (3 :> [parent |-> 2, header |-> 4, blocks |-> 4..8])
                        @@ (4 :> [parent |-> 3, header |-> 5, blocks |-> 5..7])
                        @@ (5 :> [parent |-> 4, header |-> 6, blocks |-> {6}])
    [] OTHER         -> (1 :> [parent |-> Null, header |-> 2, blocks |-> {2}])
                        @@ (2 :> [parent |-> Null, header |-> 4, blocks |-> {4}])

ConflictKinds == {"NoConflict", "MustNotIntersect", "Bad"}

Access(isWrite, sites, ty, home, dims, lb, ub, conflicts) ==
  [isWrite |-> isWrite, sites |-> sites, tys |-> AsSeq([i \in DOMAIN sites |-> ty]),
   home |-> home, dims |-> dims, base |-> 1, step |-> [d \in 1..SSR_MAX_DIM + 1 |-> 1],
   rep |-> [d \in 1..SSR_MAX_DIM + 1 |-> 1],
   lb |-> lb, ub |-> ub, conflicts |-> conflicts]

(* ck: the kind of the conflict between the load of A and the store to C *)
FixtureAAA(name, ck) ==
  CASE name = "one" ->
         (1 :> Access(FALSE, <<3>>, "double", 1, (1 :> 1), AV(11), AV(12),
                      (1 :> {[acc |-> 3, kind |-> ck]})))
      @@ (2 :> Access(FALSE, <<4>>, "double", 1, (1 :> 1),
                      CV(SSR_SCRATCHPAD_BEGIN), CV(SSR_SCRATCHPAD_END), (1 :> {})))
      @@ (3 :> Access(TRUE, <<6>>, "double", 1, (1 :> 1), AV(13), AV(14),
                      (1 :> {[acc |-> 1, kind |-> ck]})))
      @@ (4 :> Access(TRUE, <<7>>, "double", 1, (1 :> 1), AV(15), AV(16), (1 :> {})))
      @@ (5 :> Access(FALSE, <<8>>, "float", 1, (1 :> 1), AV(17), AV(18), (1 :> {})))
    [] name = "two" ->
         (1 :> Access(FALSE, <<3, 4>>, "double", 1, (1 :> 1), AV(11), AV(12), (1 :> {})))
      @@ (2 :> Access(TRUE, <<6, 7>>, "double", 1, (1 :> 1), AV(13), AV(14), (1 :> {})))
    [] name = "nest" ->
         (1 :> Access(FALSE, <<5>>, "double", 2, (2 :> 1) @@ (1 :> 2), AV(11), AV(12),
                      (1 :> {}) @@ (2 :> {})))
      @@ (2 :> Access(TRUE, <<10>>, "double", 1, (1 :> 1), AV(13), AV(14), (1 :> {})))
    [] name = "deep" ->
         (1 :> Access(FALSE, <<11>>, "double", 5, [L \in 1..5 |-> 6 - L], AV(11), AV(12),
                      [L \in 1..5 |-> {}]))
      @@ (2 :> Access(TRUE, <<15>>, "double", 4, [L \in 1..4 |-> 5 - L], AV(13), AV(14),
                      [L \in 1..4 |-> {}]))
    [] OTHER ->
         (1 :> Access(FALSE, <<3>>, "double", 1, (1 :> 1), AV(11), AV(12), (1 :> {})))
      @@ (2 :> Access(FALSE, <<9>>, "double", 2, (2 :> 1),
                      CV(SSR_SCRATCHPAD_END), CV(SSR_SCRATCHPAD_END + 8), (2 :> {})))

(* AAA.getExpandableAccesses(L, SSRConflictFreeOnly) *)
FixtureExpandable(name) ==
  CASE name = "one"  -> (1 :> <<1, 2, 3, 4, 5>>)
    [] name = "two"  -> (1 :> <<1, 2>>)
    [] name = "nest" -> (1 :> <<1, 2>>) @@ (2 :> <<1>>)
    [] name = "deep" -> [L \in 1..5 |-> IF L = 5 THEN <<1>> ELSE <<1, 2>>]
    [] OTHER         -> (1 :> <<1>>) @@ (2 :> <<2>>)

(* AAA.getLI().getTopLevelLoops() *)
FixtureTopLoops(name) ==
  CASE name = "seq" -> {<<1, 2>>, <<2, 1>>}
    [] name \in {"seq_asm", "seq_call", "seq_ssr"} -> {<<2, 1>>}
    [] OTHER -> {<<1>>}

(* the trip count the rep of a loop is known to be, or -1 when it is no constant *)
TripCounts == {1, -1}

FixtureTripCounts(name) ==
  IF name = "deep" THEN {[L \in Loops(FixtureLI(name)) |-> -1]}
  ELSE [Loops(FixtureLI(name)) -> TripCounts]

Inputs ==
  UNION {
    {[name |-> name, LI |-> FixtureLI(name), AAA |-> FixtureAAA(name, ck),
      expandable |-> FixtureExpandable(name), toploops |-> top, tc |-> tc] :
        ck \in (IF name = "one" THEN ConflictKinds ELSE {"NoConflict"}),
        top \in FixtureTopLoops(name),
        tc \in FixtureTripCounts(name)} :
    name \in Fixtures}

Flags ==
  [InferSSR : BOOLEAN, SSRNoIntersectCheck : BOOLEAN, SSRNoTCDMCheck : BOOLEAN,
   SSRNoBoundCheck : BOOLEAN, SSRBarrier : BOOLEAN, SSRNoInline : BOOLEAN]

(***************************************************************************)
(* SSRGenerationPass::run                                                  *)
(***************************************************************************)
MaxRuns == 1
MaxOpen == 2

Init ==
  /\ \E i \in Inputs, tagged \in BOOLEAN :
       /\ inp = i
       /\ F = [FixtureF(i.name) EXCEPT !.attrs = IF tagged THEN {"SSR"} ELSE {}]
  /\ F0 = F
  /\ flags \in Flags
  /\ pc = "start"
  /\ tree = EmptyTree
  /\ res = <<>>
  /\ tpc = "run"
  /\ LocalsInit
  /\ ret = ""
  /\ runs = 0
  /\ walk = NoWalk
  /\ scan = NoScan

(* a region was cloned or an SSR intrinsic emitted in this run *)
IRMutated(fn) ==
  regions # <<>> \/ \E i \in AllInsts(fn) : i.op \in riscSSRIntrinsics /\ i.id >= F0.nid

Reads(queries, after) == {[query |-> q, after |-> after] : q \in queries}

(* the two early returns *)
skipsFunctionInferOnly(fl, fn) == ~fl.InferSSR
skipsFunction(fl, fn) == ~fl.InferSSR \/ "SSR" \in fn.attrs

RunEarlyExit ==
  /\ pc = "start"
  /\ skipsFunction(flags, F)
  /\ ret' = "all"
  /\ pc' = "done"
  /\ UNCHANGED <<treeVars, F, F0, inputVars, scan, localVars, runs, walk>>

RunBegin ==
  /\ pc = "start"
  /\ ~skipsFunction(flags, F)
  /\ changed' = FALSE
  /\ ssrInvalidLoops' = findLoopsWithSSR(F, inp.LI)
  /\ tIdx' = 1
  /\ bIdx' = 1
  /\ pc' = IF inp.toploops = <<>> THEN "clone" ELSE "top"
  /\ consulted' = consulted \cup Reads({"AAA.getLI", "getTopLevelLoops"}, IRMutated(F))
  /\ UNCHANGED <<treeVars, F, F0, inputVars, scan, worklist, possible, bestLoops, conds, checks, exps,
                 gains, regions, ret, runs, walk>>

(* for (const Loop *T : toploops): a fresh tree, the worklist holds T *)
TopLoopBegin ==
  /\ pc = "top"
  /\ tree' = EmptyTree
  /\ res' = <<>>
  /\ worklist' = <<inp.toploops[tIdx]>>
  /\ pc' = "visit"
  /\ UNCHANGED <<tpc, F, F0, inputVars, scan, ssrInvalidLoops, tIdx, possible, bestLoops, bIdx,
                 conds, checks, exps, gains, regions, consulted, changed, ret, runs, walk>>

(* what a build does at case AffAccConflict::Bad: the assertion fails, or, *)
(* with assertions compiled out, llvm_unreachable is undefined behaviour   *)
BadOutcomes == {"abort", "NoConflict", "MustNotIntersect"}

(* what a build does at a signed overflow in getEstGain: the value wraps,  *)
(* or the build traps (-ftrapv, -fsanitize=signed-integer-overflow)        *)
OverflowOutcomes == {"wrap", "trap"}

(* one turn of the while loop: visitLoop(L, ...) and the sub-loops pushed *)
VisitLoop ==
  /\ pc = "visit"
  /\ worklist # <<>>
  /\ LET L == Head(worklist)
         isKnownInvalid == L \in ssrInvalidLoops
         accs == IF isKnownInvalid \/ ~isValidLoop(F, inp.LI, L)
                 THEN <<>> ELSE inp.expandable[L]
         valid == SelectSeq(accs, LAMBDA a : isValid(inp.AAA[a], L))
     IN \E sorted \in SortedBy(inp.AAA, L, valid) :
          LET l == TakeCandidates(sorted)
              isBad == ReachesBadConflict(inp.AAA, flags, l, L)
          IN \E badAs \in IF isBad THEN BadOutcomes ELSE {"NoConflict"} :
               LET est == getEstGain(inp.AAA, inp.LI, flags, inp.tc, l, L, badAs)
                   gain == est.gain
                   val == GainToValue(gain)
                   Parent == inp.LI[L].parent
               IN \E ovf \in IF est.ub THEN OverflowOutcomes ELSE {"wrap"} :
                  IF (isBad /\ badAs = "abort") \/ ovf = "trap"
                     \/ ~insertNodeAsserts(tree, L, Parent)
                  THEN /\ pc' = "abort"
                       /\ possible' = MapInsert(possible, L, l)
                       /\ UNCHANGED <<tree, worklist, gains>>
                  ELSE /\ possible' = MapInsert(possible, L, l)
                       /\ gains' = MapInsert(gains, L, gain)
                       /\ tree' = insertNode(tree, L, val, Parent)
                       /\ worklist' = Tail(worklist) \o getSubLoops(inp.LI, L)
                       /\ pc' = "visit"
  /\ consulted' = consulted \cup
       Reads({"isValidLoop", "AAA.getExpandableAccesses", "AffAcc::loopToDimension",
              "AffAcc::getRep", "Loop::getSubLoops"}, IRMutated(F))
  /\ UNCHANGED <<res, tpc, F, F0, inputVars, scan, ssrInvalidLoops, tIdx, bestLoops, bIdx, conds, checks,
                 exps, regions, changed, ret, runs, walk>>

(* best = tree.findBest(f) *)
FindBest ==
  /\ pc = "visit"
  /\ worklist = <<>>
  /\ res' = findBest(tree)
  /\ bIdx' = 1
  /\ pc' = "expand"
  /\ UNCHANGED <<tree, tpc, F, F0, inputVars, scan, ssrInvalidLoops, tIdx, worklist, possible,
                 bestLoops, conds, checks, exps, gains, regions, consulted, changed, ret, runs, walk>>

(* one turn of for (const Loop *L : best) *)
ExpandLoop ==
  /\ pc = "expand"
  /\ bIdx <= Len(res)
  /\ LET L == res[bIdx]
         acc == possible[L]
     IN IF acc # <<>>
        THEN IF ~expandInLoopAsserts(acc)
             THEN /\ pc' = "abort"
                  /\ changed' = TRUE
                  /\ UNCHANGED <<F, conds, checks, exps, bIdx>>
             ELSE \E kind \in AnalysisCondKinds(flags) :
                    LET x == expandInLoop(F, inp.LI, inp.AAA, flags, acc, L, kind)
                    IN /\ changed' = TRUE
                       /\ F' = x.fn
                       /\ conds' = MapInsert(conds, L, x.Cond)
                       /\ checks' = MapInsert(checks, L, x.Checks)
                       /\ exps' = MapInsert(exps, L, x.exp)
                       /\ bIdx' = bIdx + 1
                       /\ pc' = pc
        ELSE /\ bIdx' = bIdx + 1
             /\ UNCHANGED <<pc, F, conds, checks, exps, changed>>
  /\ consulted' = consulted \cup
       (IF possible[res[bIdx]] # <<>> /\ expandInLoopAsserts(possible[res[bIdx]])
        THEN Reads({"Loop::getLoopPreheader", "AAA.expandAllAt"}, IRMutated(F))
        ELSE {})
  /\ UNCHANGED <<treeVars, F0, inputVars, scan, ssrInvalidLoops, tIdx, worklist, possible,
                 bestLoops, gains, regions, ret, runs, walk>>

(* bestLoops.insert(T, best), and on to the next top-level loop *)
TopLoopEnd ==
  /\ pc = "expand"
  /\ bIdx > Len(res)
  /\ bestLoops' = MapInsert(bestLoops, inp.toploops[tIdx], res)
  /\ tIdx' = tIdx + 1
  /\ bIdx' = 1
  /\ pc' = IF tIdx = Len(inp.toploops) THEN "clone" ELSE "top"
  /\ UNCHANGED <<treeVars, F, F0, inputVars, scan, ssrInvalidLoops, worklist, possible, conds, checks,
                 exps, gains, regions, consulted, changed, ret, runs, walk>>

(* the loops the second pair of for loops goes over, in its order *)
RECURSIVE ChosenLoops(_, _)
ChosenLoops(toploops, best) ==
  IF toploops = <<>> THEN <<>>
  ELSE best[Head(toploops)] \o ChosenLoops(Tail(toploops), best)

(* what cloneRegion returns, when cloneAndSetup calls it, and the function *)
(* as it is at that return                                                 *)
RegionFields(p) ==
  [HeadBr |-> p.HeadBr, BRFuse |-> p.BRFuse, BRFuseClone |-> p.BRFuseClone, Head |-> p.Head,
   Begin |-> p.Begin, Fuse |-> p.Fuse, End |-> p.End, clones |-> p.clones, fn |-> p.fn]

RegionOf(fn, PhT, ExP) == RegionFields(cloneRegion(fn, PhT, ExP))

clonesRegion(Cond, exp) == Len(exp) # 0 /\ Cond.k # "const"

(* cloneAndSetup goes on to GenerateSSRSetup *)
setsUp(Cond, exp) == Len(exp) # 0 /\ (Cond.k = "const" => Cond.n # 0)

(* what one turn of the inner for loop of the second phase reads:          *)
(* getSingleExitBlock(L) and L->getLoopPreheader() for the call of         *)
(* cloneAndSetup; in GenerateSSRSetup E.Access->isWrite(), after the       *)
(* region was cloned if it is, and E.Access->getAccesses(), after the      *)
(* setup_bound_stride calls were emitted                                   *)
CloneLoopReads(L) ==
  IF L \notin DOMAIN conds THEN {}
  ELSE Reads({"getSingleExitBlock"}, IRMutated(F)) \cup
       (IF getSingleExitBlock(F, inp.LI, L) = Null \/ ~cloneAndSetupAsserts(exps[L])
        THEN {}
        ELSE Reads({"Loop::getLoopPreheader"}, IRMutated(F)) \cup
             (IF setsUp(conds[L], exps[L])
              THEN Reads({"AffAcc::isWrite"},
                         IRMutated(F) \/ clonesRegion(conds[L], exps[L]))
                   \cup Reads({"AffAcc::getAccesses"}, TRUE)
              ELSE {}))

(* one turn of the inner for loop of the second phase *)
CloneLoop ==
  /\ pc = "clone"
  /\ bIdx <= Len(ChosenLoops(inp.toploops, bestLoops))
  /\ LET L == ChosenLoops(inp.toploops, bestLoops)[bIdx]
     IN IF L \in DOMAIN conds
        THEN LET Ex == getSingleExitBlock(F, inp.LI, L)
             IN IF Ex = Null \/ ~cloneAndSetupAsserts(exps[L])
                THEN /\ pc' = "abort"
                     /\ UNCHANGED <<F, bIdx, regions>>
                ELSE /\ F' = cloneAndSetup(F, inp.AAA, flags,
                                Terminator(F, getLoopPreheader(F, inp.LI, L)).id,
                                getFirstInsertionPt(F, Ex), conds[L], exps[L], L)
                     /\ regions' =
                          IF clonesRegion(conds[L], exps[L])
                          THEN MapInsert(regions, L,
                                 RegionOf(F, Terminator(F, getLoopPreheader(F, inp.LI, L)).id,
                                          getFirstInsertionPt(F, Ex)))
                          ELSE regions
                     /\ bIdx' = bIdx + 1
                     /\ pc' = pc
        ELSE /\ bIdx' = bIdx + 1
             /\ UNCHANGED <<pc, F, regions>>
  /\ consulted' = consulted \cup
       CloneLoopReads(ChosenLoops(inp.toploops, bestLoops)[bIdx])
  /\ UNCHANGED <<treeVars, F0, inputVars, scan, ssrInvalidLoops, tIdx, worklist, possible,
                 bestLoops, conds, checks, exps, gains, changed, ret, runs, walk>>

RunReturn ==
  /\ pc = "clone"
  /\ bIdx > Len(ChosenLoops(inp.toploops, bestLoops))
  /\ IF ~changed
     THEN /\ ret' = "all"
          /\ F' = F
     ELSE /\ F' = [F EXCEPT !.attrs = @ \cup {"SSR"}
                                        \cup (IF flags.SSRNoInline THEN {"NoInline"} ELSE {})]
          /\ ret' = "none"
  /\ pc' = "done"
  /\ UNCHANGED <<treeVars, F0, inputVars, scan, localVars, runs, walk>>

(* the pass manager runs the pass on the function again *)
RunAgain ==
  /\ pc = "done"
  /\ runs < MaxRuns
  /\ walk = NoWalk
  /\ runs' = runs + 1
  /\ F0' = F
  /\ ret' = ""
  /\ pc' = "start"
  /\ tree' = EmptyTree
  /\ res' = <<>>
  /\ ssrInvalidLoops' = {}
  /\ tIdx' = 1
  /\ worklist' = <<>>
  /\ possible' = <<>>
  /\ bestLoops' = <<>>
  /\ bIdx' = 1
  /\ conds' = <<>>
  /\ checks' = <<>>
  /\ exps' = <<>>
  /\ gains' = <<>>
  /\ regions' = <<>>
  /\ consulted' = {}
  /\ changed' = FALSE
  /\ UNCHANGED <<tpc, F, inputVars, scan, walk>>

(***************************************************************************)
(* An execution of the function the pass returned: block by block, either  *)
(* way at a conditional branch.  open is the stack of the loops whose      *)
(* stream_enable has run and whose stream_disable has not.                 *)
(***************************************************************************)
ExecInst(w, i) ==
  IF i.op = "enable"
  THEN [w EXCEPT !.nested = @ \/ w.open # <<>>, !.open = Append(@, i.lp), !.ran = TRUE]
  ELSE IF i.op = "disable"
  THEN IF w.open = <<>> THEN [w EXCEPT !.bad = TRUE]
       ELSE [w EXCEPT !.other = @ \/ w.open[Len(w.open)] # i.lp,
                      !.open = SubSeq(@, 1, Len(@) - 1)]
  ELSE IF i.op \in riscSSRIntrinsics /\ w.open # <<>> /\ w.open[Len(w.open)] # i.lp
  THEN [w EXCEPT !.foreign = TRUE]
  ELSE w

RECURSIVE ExecInsts(_, _)
ExecInsts(w, insts) ==
  IF insts = <<>> THEN w ELSE ExecInsts(ExecInst(w, Head(insts)), Tail(insts))

ExecBlock(fn, b, w) == ExecInsts([w EXCEPT !.bb = b], fn.blocks[b])

WalkEntry ==
  /\ pc = "done"
  /\ walk = NoWalk
  /\ walk' = ExecBlock(F, 1, NoWalk)
  /\ UNCHANGED <<treeVars, pc, F, F0, inputVars, scan, localVars, ret, runs>>

WalkStep ==
  /\ pc = "done"
  /\ walk.bb # 0
  /\ ~walk.done
  /\ Len(walk.open) <= MaxOpen
  /\ IF successors(F, walk.bb) = <<>>
     THEN walk' = [walk EXCEPT !.done = TRUE]
     ELSE \E s \in Range(successors(F, walk.bb)) : walk' = ExecBlock(F, s, walk)
  /\ UNCHANGED <<treeVars, pc, F, F0, inputVars, scan, localVars, ret, runs>>

Next ==
  \/ RunEarlyExit
  \/ RunBegin
  \/ TopLoopBegin
  \/ VisitLoop
  \/ FindBest
  \/ ExpandLoop
  \/ TopLoopEnd
  \/ CloneLoop
  \/ RunReturn
  \/ RunAgain
  \/ WalkEntry
  \/ WalkStep

Spec == Init /\ [][Next]_vars

(***************************************************************************)
(* SpecVisit: the first loop of run over one top-level loop (visitLoop for *)
(* every loop of the nest, then findBest), entered after                   *)
(* findLoopsWithSSR found nothing, on a nest of five loops with            *)
(*   - MaxAccs accesses of the kinds VisitKinds, in every combination, or  *)
(*   - the two accesses ArithAAA with the constant trip counts             *)
(*     BigTripCounts for the four outer loops, in every combination.       *)
(***************************************************************************)
MaxAccs == 4

HeaderTerm == <<3, 5, 7, 9, 13>>

VisitKinds ==
  << [home |-> 5, isWrite |-> FALSE, ty |-> "double"],
     [home |-> 2, isWrite |-> TRUE, ty |-> "double"],
     [home |-> 2, isWrite |-> FALSE, ty |-> "double"],
     [home |-> 1, isWrite |-> TRUE, ty |-> "double"],
     [home |-> 1, isWrite |-> FALSE, ty |-> "double"],
     [home |-> 1, isWrite |-> FALSE, ty |-> "float"],
     [home |-> 4, isWrite |-> FALSE, ty |-> "double"] >>

VisitAccess(kd, i) ==
  Access(kd.isWrite, <<FnDeep.nid + i - 1>>, kd.ty, kd.home,
         [L \in 1..kd.home |-> kd.home + 1 - L], AV(10 + 2 * i), AV(11 + 2 * i),
         [L \in 1..kd.home |-> {}])

(* one kind is taken twice only when it is of the outermost loop alone *)
KindChoices ==
  {ks \in [1..MaxAccs -> DOMAIN VisitKinds] :
     \A i \in 1..MaxAccs - 1 :
       ks[i] < ks[i + 1] \/ (ks[i] = ks[i + 1] /\ VisitKinds[ks[i]].home = 1)}

VisitAAA(ks) == AsSeq([i \in 1..MaxAccs |-> VisitAccess(VisitKinds[ks[i]], i)])

ArithAAA ==
  << [VisitAccess([home |-> 4, isWrite |-> FALSE, ty |-> "double"], 1)
        EXCEPT !.base = 2, !.step = <<3, 1, 2, 1, 1>>, !.rep = <<1, 2, 1, 3, 1>>],
     VisitAccess([home |-> 1, isWrite |-> TRUE, ty |-> "double"], 2) >>

(* the value getLimitedValue(INT_MAX) returns for the constant rep of a    *)
(* loop, or -1 when the rep is no constant                                 *)
BigTripCounts == {-1, 0, 1, 2, 46341, 65536, 715827883, INT_MAX}

VisitExpandable(AAA) ==
  [L \in 1..5 |-> SelectSeq(AsSeq([i \in 1..Len(AAA) |-> i]), LAMBDA a : AAA[a].home >= L)]

(* FnDeep with the load or store of each access at the end of the header   *)
(* of its innermost loop                                                   *)
RECURSIVE WithSites(_, _, _)
WithSites(fn, AAA, i) ==
  IF i > Len(AAA) THEN fn
  ELSE WithSites(
         [InsertBefore(fn, HeaderTerm[AAA[i].home],
                       <<IF AAA[i].isWrite
                         THEN Inst(fn.nid, "store", <<CV(0), AV(i)>>)
                         ELSE Inst(fn.nid, "load", <<AV(i)>>)>>)
            EXCEPT !.nid = @ + 1], AAA, i + 1)

VisitInput(name, AAA, tc) ==
  [name |-> name, LI |-> FixtureLI("deep"), AAA |-> AAA,
   expandable |-> VisitExpandable(AAA), toploops |-> <<1>>, tc |-> tc]

VisitInputs ==
  {VisitInput("kinds", VisitAAA(ks), [L \in 1..5 |-> -1]) : ks \in KindChoices}
  \cup {VisitInput("arith", ArithAAA, tc) :
          tc \in {t \in [1..5 -> BigTripCounts] : t[5] = -1}}

VisitFlags ==
  {f \in Flags : /\ f.InferSSR /\ ~f.SSRBarrier /\ ~f.SSRNoInline
                 /\ f.SSRNoIntersectCheck = f.SSRNoBoundCheck
                 /\ f.SSRNoBoundCheck = f.SSRNoTCDMCheck}

InitVisit ==
  /\ inp \in VisitInputs
  /\ F = WithSites(FnDeep, inp.AAA, 1)
  /\ F0 = F
  /\ flags \in VisitFlags
  /\ pc = "top"
  /\ tree = EmptyTree
  /\ res = <<>>
  /\ tpc = "run"
  /\ LocalsInit
  /\ ret = ""
  /\ runs = 0
  /\ walk = NoWalk
  /\ scan = NoScan

NextVisit == TopLoopBegin \/ VisitLoop \/ FindBest

SpecVisit == InitVisit /\ [][NextVisit]_vars

(***************************************************************************)
(* SpecScan: findLoopsWithSSR, one turn of its while loop at a time, on    *)
(* the function with two loops in sequence, each of its first four blocks  *)
(* holding before its terminator one of ScanContents.                      *)
(***************************************************************************)
ScanContents ==
  {<<>>, <<"enable">>, <<"disable">>, <<"enable", "disable">>, <<"disable", "enable">>,
   <<"asm">>, <<"call_ssr">>}

ScanTerm == <<1, 5, 7, 11>>

RECURSIVE WithContents(_, _, _)
WithContents(fn, cont, b) ==
  IF b > Len(ScanTerm) THEN fn
  ELSE WithContents(
         [InsertBefore(fn, ScanTerm[b],
                       AsSeq([k \in DOMAIN cont[b] |-> Inst(fn.nid + k - 1, cont[b][k], <<>>)]))
            EXCEPT !.nid = @ + Len(cont[b])], cont, b + 1)

InitScan ==
  /\ \E cont \in [DOMAIN ScanTerm -> ScanContents] : F = WithContents(FnSeq, cont, 1)
  /\ F0 = F
  /\ inp = [name |-> "scan", LI |-> FixtureLI("seq"), AAA |-> FixtureAAA("seq", "NoConflict"),
            expandable |-> FixtureExpandable("seq"), toploops |-> <<1, 2>>,
            tc |-> [L \in 1..2 |-> -1]]
  /\ flags \in {f \in VisitFlags : ~f.SSRNoTCDMCheck}
  /\ pc = "scan"
  /\ tree = EmptyTree
  /\ res = <<>>
  /\ tpc = "run"
  /\ LocalsInit
  /\ ret = ""
  /\ runs = 0
  /\ walk = NoWalk
  /\ scan = ScanStart

(* one turn of the while loop *)
ScanStep ==
  /\ pc = "scan"
  /\ scan.worklist # <<>>
  /\ scan' = ssrStep(F, inp.LI, scan)
  /\ UNCHANGED <<treeVars, pc, F, F0, inputVars, localVars, ret, runs, walk>>

(* return invalid *)
ScanReturn ==
  /\ pc = "scan"
  /\ scan.worklist = <<>>
  /\ ssrInvalidLoops' = scan.invalid
  /\ pc' = "scanned"
  /\ UNCHANGED <<treeVars, F, F0, inputVars, tIdx, worklist, possible, bestLoops, bIdx, conds, checks,
                 exps, gains, regions, consulted, changed, ret, runs, walk, scan>>

NextScan == ScanStep \/ ScanReturn

SpecScan == InitScan /\ [][NextScan]_vars

(* the while loop goes on to its next turn, and the function returns *)
SpecScanFair == SpecScan /\ WF_vars(NextScan)

(***************************************************************************)
(* C1: the sequence returned by findBest holds no two loops of which one   *)
(* is an ancestor or descendant of the other (and no loop twice).          *)
(***************************************************************************)
C1_NoAncestorDescendant ==
  tpc = "found" =>
    /\ \A i \in DOMAIN res : \A j \in DOMAIN res :
          i # j => (res[i] # res[j] /\ ~Related(tree, res[i], res[j]))
    /\ Range(res) \subseteq TreeNodes(tree)

(* a tree of depth 2 with siblings whose query selected a deep node *)
C1_Witness ==
  /\ tpc = "found"
  /\ Len(res) >= 2
  /\ \E n \in Range(res) : \E a \in TreeNodes(tree) : IsAncestor(tree, a, n)

(***************************************************************************)
(* C2: with summation, when the values' sum stays in the unsigned range,   *)
(* the summed value of the returned loops is the maximum over all sets of  *)
(* nodes without ancestor/descendant pair.                                 *)
(***************************************************************************)
NoOverflow(t) == SetSum(t, TreeNodes(t)).hi < Limb

C2_MaxSum ==
  (tpc = "found" /\ tree.Root # Null /\ NoOverflow(tree)) =>
    /\ IsAntichain(tree, Range(res))
    /\ ResSum(tree, res) = MaxAntichainSum(tree)

(* children beat a non-zero parent, in a tree where UINT_MAX is not summed over *)
C2_Witness ==
  /\ tpc = "found"
  /\ NoOverflow(tree)
  /\ tree.Root # Null
  /\ UGt(tree.values[tree.Root], U32(0))
  /\ Len(res) >= 2
  /\ UGt(ResSum(tree, res), tree.values[tree.Root])

(***************************************************************************)
(* Vocabulary of the properties of the function the pass leaves            *)
(***************************************************************************)
OpsIn(fn, ops) == {i \in AllInsts(fn) : i.op \in ops}
Precedes(fn, a, b) ==
  getParent(fn, a.id) = getParent(fn, b.id) /\ PosOf(fn, a.id) < PosOf(fn, b.id)
BaseSetupOps == {"read_imm", "write_imm"}
SetupOps == {"setup_bound_stride", "setup_repetition"} \cup BaseSetupOps
(* the calls with operation op the emitter made for data mover s.dm of loop s.lp *)
SetupsFor(fn, s, op) == {q \in OpsIn(fn, {op}) : q.dm = s.dm /\ q.lp = s.lp}
BoundStrideFor(fn, s, d) == {q \in SetupsFor(fn, s, "setup_bound_stride") : q.imm = d}
TheOne(S) == CHOOSE x \in S : TRUE
(* the run was no early exit *)
PassRan == flags.InferSSR /\ "SSR" \notin F0.attrs

C4_SetupOrder ==
  /\ \A s \in OpsIn(F, BaseSetupOps) :
       /\ \A d \in 1..(s.imm + 1) : Cardinality(BoundStrideFor(F, s, d)) = 1
       /\ \A d \in 1..s.imm :
            Precedes(F, TheOne(BoundStrideFor(F, s, d)), TheOne(BoundStrideFor(F, s, d + 1)))
       /\ Cardinality(SetupsFor(F, s, "setup_repetition")) = 1
       /\ Precedes(F, TheOne(BoundStrideFor(F, s, s.imm + 1)),
                   TheOne(SetupsFor(F, s, "setup_repetition")))
       /\ Precedes(F, TheOne(SetupsFor(F, s, "setup_repetition")), s)
       /\ \E e \in OpsIn(F, {"enable"}) : e.lp = s.lp
  /\ \A x \in OpsIn(F, SetupOps) : \A e \in OpsIn(F, {"enable"}) :
       e.lp = x.lp => Precedes(F, x, e)
  /\ \A x \in OpsIn(F, SetupOps) : \E s \in OpsIn(F, BaseSetupOps) :
       s.dm = x.dm /\ s.lp = x.lp

(* a two-dimensional stream and a second stream set up in the same block *)
C4_Witness ==
  \E s \in OpsIn(F, BaseSetupOps) : \E t \in OpsIn(F, BaseSetupOps) :
    /\ s.imm = 1
    /\ t.lp = s.lp
    /\ t.dm # s.dm
    /\ getParent(F, t.id) = getParent(F, s.id)

(***************************************************************************)
(* C5: no loop has more than NUM_SSR candidates or more than NUM_SSR       *)
(* expanded accesses, and the k-th base-address setup emitted for a loop   *)
(* is the one of its k-th expanded access and has data mover k-1, which is *)
(* below NUM_SSR.                                                          *)
(***************************************************************************)
StreamsOf(fn, b, L) ==
  SelectSeq(fn.blocks[b], LAMBDA i : i.op \in BaseSetupOps /\ i.lp = L)

C5_AtMostThreeStreams ==
  runs = 0 =>
    /\ \A L \in DOMAIN possible : Len(possible[L]) <= NUM_SSR
    /\ \A L \in DOMAIN exps : Len(exps[L]) <= NUM_SSR
    /\ \A s \in OpsIn(F, BaseSetupOps) : s.lp \in DOMAIN exps
    /\ \A L \in DOMAIN exps : \A b \in BlockIds(F) :
         StreamsOf(F, b, L) # <<>> =>
           /\ Len(StreamsOf(F, b, L)) = Len(exps[L])
           /\ \A k \in DOMAIN exps[L] :
                /\ StreamsOf(F, b, L)[k].dm = k - 1
                /\ StreamsOf(F, b, L)[k].dm < NUM_SSR
                /\ StreamsOf(F, b, L)[k].args = <<exps[L][k].Addr>>
                /\ StreamsOf(F, b, L)[k].op =
                     (IF inp.AAA[exps[L][k].Access].isWrite THEN "write_imm" ELSE "read_imm")

(* a loop with more than NUM_SSR valid accesses, of which NUM_SSR got a stream *)
C5_Witness ==
  /\ runs = 0
  /\ \E L \in DOMAIN possible :
       /\ Len(SelectSeq(inp.expandable[L], LAMBDA a : isValid(inp.AAA[a], L))) > NUM_SSR
       /\ Len(possible[L]) = NUM_SSR
       /\ \E s \in OpsIn(F, BaseSetupOps) : s.lp = L /\ s.dm = NUM_SSR - 1

(***************************************************************************)
(* C6: after cloneAndSetup cloned the region of a loop, the block that     *)
(* ends the region and its clone both branch to the one exit block, and    *)
(* every phi of the exit block has, for each incoming from the original    *)
(* region, exactly one incoming from the clone of that predecessor, which  *)
(* carries the clone of the value, or the value itself if it has no clone. *)
(***************************************************************************)
CloneBlocks(r) == {r.clones[v].n : v \in {x \in DOMAIN r.clones : x.k = "block"}}

EndPhisMatch(fn, r) ==
  /\ BV(r.Fuse) \in DOMAIN r.clones
  /\ successors(fn, r.Fuse) = <<r.End>>
  /\ successors(fn, r.clones[BV(r.Fuse)].n) = <<r.End>>
  /\ predecessors(fn, r.End) = {r.Fuse, r.clones[BV(r.Fuse)].n}
  /\ \A phi \in Range(PhisOf(fn, r.End)) :
       /\ Len(phi.inb) = Len(phi.args)
       /\ \A k \in DOMAIN phi.inb :
            phi.inb[k] \notin CloneBlocks(r) =>
              Cardinality({j \in DOMAIN phi.inb :
                             phi.inb[j] = CloneOr(r.clones, BV(phi.inb[k])).n}) = 1
       /\ \A k \in DOMAIN phi.inb : \A j \in DOMAIN phi.inb :
            (phi.inb[k] \notin CloneBlocks(r)
               /\ phi.inb[j] = CloneOr(r.clones, BV(phi.inb[k])).n)
              => phi.args[j] = CloneOr(r.clones, phi.args[k])
       /\ Cardinality({k \in DOMAIN phi.inb : phi.inb[k] \in CloneBlocks(r)})
            = Cardinality({k \in DOMAIN phi.inb : phi.inb[k] \notin CloneBlocks(r)})

LastCloned == ChosenLoops(inp.toploops, bestLoops)[bIdx - 1]

C6_EndPhisMatch ==
  (pc = "clone" /\ bIdx > 1 /\ LastCloned \in DOMAIN regions) =>
    EndPhisMatch(F, regions[LastCloned])

(* the exit block of a region just cloned has a phi whose incoming from    *)
(* the clone carries a cloned value                                        *)
C6_Witness ==
  /\ pc = "clone"
  /\ bIdx > 1
  /\ LastCloned \in DOMAIN regions
  /\ \E phi \in Range(PhisOf(F, regions[LastCloned].End)) : \E k \in DOMAIN phi.inb :
       /\ phi.inb[k] = regions[LastCloned].Fuse
       /\ phi.args[k] \in DOMAIN regions[LastCloned].clones

(***************************************************************************)
(* C7: a run with infer-ssr off, or on a function that carries the SSR     *)
(* attribute, returns with the function as it was and all analyses         *)
(* preserved; so does a second run on a function the first run tagged.     *)
(***************************************************************************)
C7_EarlyExitNoChange ==
  (pc = "done" /\ (~flags.InferSSR \/ "SSR" \in F0.attrs)) => (F = F0 /\ ret = "all")

(* the second run on a function in which the first run installed a stream *)
C7_Witness ==
  /\ pc = "done"
  /\ runs = 1
  /\ flags.InferSSR
  /\ "SSR" \in F0.attrs
  /\ OpsIn(F0, {"enable"}) # {}
  /\ ret = "all"

(***************************************************************************)
(* C8: a run that is no early exit tags the function SSR and reports the   *)
(* analyses invalidated exactly when it installed a stream.                *)
(***************************************************************************)
C8_TaggedIffStreamInstalled ==
  (pc = "done" /\ runs = 0 /\ PassRan) =>
    (("SSR" \in F.attrs /\ ret = "none")
       <=> {i \in OpsIn(F, riscSSRIntrinsics) : i.id >= F0.nid} # {})

(***************************************************************************)
(* C9: when every loop has an empty candidate set or a negative estimated  *)
(* gain, no loop is expanded, the function stays as it was, untagged, and  *)
(* run reports all analyses preserved.                                     *)
(***************************************************************************)
NoLoopGains ==
  \A L \in Loops(inp.LI) :
    L \in DOMAIN possible /\ (possible[L] = <<>> \/ (L \in DOMAIN gains /\ gains[L] < 0))

C9_NoGainNoChange ==
  (pc = "done" /\ runs = 0 /\ PassRan /\ NoLoopGains) =>
    (conds = <<>> /\ F = F0 /\ "SSR" \notin F.attrs /\ ret = "all")

(***************************************************************************)
(* C10: a loop whose candidate set has a conflict of kind Bad is left      *)
(* unexpanded, and the run goes on: it does not abort.                     *)
(***************************************************************************)
HasBadConflict(AAA, accs, L) ==
  \E k \in DOMAIN accs : \E c \in AAA[accs[k]].conflicts[L] : c.kind = "Bad"

C10_BadConflictSkipsLoop ==
  \A L \in DOMAIN possible :
    HasBadConflict(inp.AAA, possible[L], L) => (pc # "abort" /\ L \notin DOMAIN conds)

(***************************************************************************)
(* C11: every loop that contains a block, reachable from the entry, with   *)
(* an SSR intrinsic call, inline assembly or a call to a function tagged   *)
(* SSR is in the set findLoopsWithSSR returned; and a loop in that set     *)
(* gets an empty candidate set, is not expanded and gets no stream.        *)
(***************************************************************************)
RECURSIVE ReachFrom(_, _)
ReachFrom(fn, S) ==
  LET T == S \cup UNION {Range(successors(fn, b)) : b \in S}
  IN IF T = S THEN S ELSE ReachFrom(fn, T)
ReachableBlocks(fn) == ReachFrom(fn, {1})
SSRActivity == riscSSRIntrinsics \cup {"asm", "call_ssr"}
(* the intrinsic calls the run added for loop L *)
InstalledFor(L) == {i \in OpsIn(F, riscSSRIntrinsics) : i.id >= F0.nid /\ i.lp = L}

DoubleOfDimAtMost4(a, L) ==
  /\ \A i \in DOMAIN inp.AAA[a].tys : inp.AAA[a].tys[i] = "double"
  /\ inp.AAA[a].dims[L] <= 4

C12_CandidatesAreValid ==
  (runs = 0 /\ PassRan) =>
    /\ \A L \in DOMAIN possible :
         /\ \A a \in Range(possible[L]) :
              a \in Range(inp.expandable[L]) /\ DoubleOfDimAtMost4(a, L)
         /\ (Len(possible[L]) < NUM_SSR /\ pc # "abort"
              /\ L \notin ssrInvalidLoops /\ isValidLoop(F0, inp.LI, L)) =>
              \A a \in Range(inp.expandable[L]) :
                DoubleOfDimAtMost4(a, L) => a \in Range(possible[L])
    /\ \A L \in DOMAIN exps : \A k \in DOMAIN exps[L] :
         /\ exps[L][k].Access \in Range(possible[L])
         /\ DoubleOfDimAtMost4(exps[L][k].Access, L)
         /\ exps[L][k].dim <= 4
    /\ \A s \in OpsIn(F, BaseSetupOps) : s.id >= F0.nid =>
         \E k \in DOMAIN exps[s.lp] :
           /\ s.args = <<exps[s.lp][k].Addr>>
           /\ DoubleOfDimAtMost4(exps[s.lp][k].Access, s.lp)

(* the pass finished; one loop had an access of dimension 5 that was left  *)
(* out of its candidates, and a loop got a four-dimensional stream         *)
C12_Witness ==
  /\ pc = "done" /\ runs = 0
  /\ \E L \in DOMAIN possible : \E a \in Range(inp.expandable[L]) :
       inp.AAA[a].dims[L] = 5 /\ a \notin Range(possible[L])
  /\ \E s \in OpsIn(F, {"setup_bound_stride"}) : s.id >= F0.nid /\ s.imm = 3

(***************************************************************************)
(* C13: for the candidates of a loop and the flags of the run, the gain    *)
(* getEstGain computes does not decrease when EST_MEMOP_COST is increased  *)
(* (here from 1 to 2 and from 2 to 3), whatever the trip counts are, the   *)
(* constant ones clamped at INT_MAX included, with the int arithmetic at   *)
(* its 32 bits.                                                            *)
(***************************************************************************)
MaxMemopCost == 3

GainWith(memop, L) ==
  getEstGainWith(memop, inp.AAA, inp.LI, flags, inp.tc, possible[L], L, "NoConflict").gain

C13_GainMonotoneInMemopCost ==
  \A L \in DOMAIN gains : \A m \in 1..MaxMemopCost - 1 :
    GainWith(m, L) <= GainWith(m + 1, L)

(***************************************************************************)
(* C14: in one run of the pass, every expansion (expandInLoop) and every   *)
(* query of the affine-access analysis, for every chosen loop of every     *)
(* top-level loop, happens before the first region is cloned or the first  *)
(* intrinsic emitted by cloneAndSetup, and nothing an analysis computed is *)
(* read after that.                                                        *)
(***************************************************************************)
C14_AnalysisBeforeFirstClone ==
  /\ IRMutated(F) => pc \in {"clone", "done", "abort"}
  /\ \A q \in consulted : ~q.after

(***************************************************************************)
(* C15: findBest selects a node N, and with it none of the nodes below N,  *)
(* exactly when the values its children return, added up, are not greater  *)
(* than value(N) (and no node above N is selected in the same way);        *)
(* otherwise the selections of the children stay and N returns their sum.  *)
(* On a tie N is selected; a node without children always selects itself.  *)
(***************************************************************************)
RECURSIVE Returned(_, _)
RECURSIVE ChildTotal(_, _, _)
(* the sum, wrapping as unsigned does, of what the children from the k-th return *)
ChildTotal(t, N, k) ==
  IF k > Len(t.children[N]) THEN U32(0)
  ELSE UAdd(Returned(t, t.children[N][k]), ChildTotal(t, N, k + 1))

Returned(t, N) ==
  IF UGt(ChildTotal(t, N, 1), t.values[N]) THEN ChildTotal(t, N, 1) ELSE t.values[N]

SelectsItself(t, N) == ~UGt(ChildTotal(t, N, 1), t.values[N])

C15_ParentUnlessChildrenGreater ==
  (tpc = "found" /\ tree.Root # Null) =>
    /\ \A N \in TreeNodes(tree) :
         N \in Range(res) <=>
           /\ SelectsItself(tree, N)
           /\ \A A \in TreeNodes(tree) : IsAncestor(tree, A, N) => ~SelectsItself(tree, A)
    /\ \A N \in TreeNodes(tree) : tree.children[N] = <<>> => SelectsItself(tree, N)
    /\ Cardinality(Range(res)) = Len(res)

(* the root kept the selection of its child, which was selected on a tie   *)
(* with its two children                                                   *)
C15_Witness ==
  /\ tpc = "found"
  /\ tree.Root # Null
  /\ tree.Root \notin Range(res)
  /\ \E N \in Range(res) :
       /\ Len(tree.children[N]) = 2
       /\ ChildTotal(tree, N, 1) = tree.values[N]
       /\ UGt(tree.values[N], U32(0))

(***************************************************************************)
(* C16: in findLoopsWithSSR, the successors of a block taken off the       *)
(* worklist marked are pushed marked unless the block holds a              *)
(* stream_disable; the successors of a block that holds a stream_disable   *)
(* are pushed unmarked, wherever the disable stands among the other SSR    *)
(* intrinsics of the block and whether the block was taken off the         *)
(* worklist marked or unmarked.                                            *)
(***************************************************************************)
C16_DisableUnmarksSuccessors ==
  \A e \in scan.log :
    /\ (e.wasMarked /\ ~e.disable) => e.marked
    /\ e.disable => ~e.marked

(***************************************************************************)
(* C17: the candidates of a loop are the first min(3, n) of its n valid    *)
(* accesses in the order of ascending dimension, reads before writes at    *)
(* equal dimension: so of more than three valid accesses those left out    *)
(* are of the highest dimensions, and at the dimension where the cut falls *)
(* the writes are left out before the reads.                               *)
(***************************************************************************)
DimOf(a, L) == inp.AAA[a].dims[L]

(* a comes before b in the order of the claim *)
GoesBefore(a, b, L) ==
  DimOf(a, L) < DimOf(b, L)
  \/ (DimOf(a, L) = DimOf(b, L) /\ ~inp.AAA[a].isWrite /\ inp.AAA[b].isWrite)

ValidOf(L) == {a \in Range(inp.expandable[L]) : DoubleOfDimAtMost4(a, L)}

LeftOut(L) == ValidOf(L) \ Range(possible[L])

C17_FirstThreeByDimension ==
  \A L \in DOMAIN possible :
    (L \notin ssrInvalidLoops /\ isValidLoop(F0, inp.LI, L)) =>
      /\ Range(possible[L]) \subseteq ValidOf(L)
      /\ Cardinality(Range(possible[L])) = Len(possible[L])
      /\ Len(possible[L]) =
           (IF Cardinality(ValidOf(L)) < 3 THEN Cardinality(ValidOf(L)) ELSE 3)
      /\ \A i, j \in DOMAIN possible[L] :
           i < j => ~GoesBefore(possible[L][j], possible[L][i], L)
      /\ \A a \in LeftOut(L) : \A b \in Range(possible[L]) : ~GoesBefore(a, b, L)

(* a loop with more than three valid accesses: a write was left out whose  *)
(* dimension is that of the last candidate, a read, and above that of the  *)
(* first; the first two are a read and a write of one dimension            *)
C17_Witness ==
  \E L \in DOMAIN possible :
    /\ Cardinality(ValidOf(L)) > 3
    /\ Len(possible[L]) = 3
    /\ \E a \in LeftOut(L) :
         /\ inp.AAA[a].isWrite
         /\ DimOf(a, L) = DimOf(possible[L][3], L)
         /\ ~inp.AAA[possible[L][3]].isWrite
         /\ DimOf(a, L) > DimOf(possible[L][1], L)
    /\ DimOf(possible[L][1], L) = DimOf(possible[L][2], L)
    /\ ~inp.AAA[possible[L][1]].isWrite
    /\ inp.AAA[possible[L][2]].isWrite

(***************************************************************************)
(* C18, as the program has it: in the candidates of every loop an access   *)
(* of smaller dimension stands before an access of larger dimension, and   *)
(* of two accesses of one dimension a read stands before a write.          *)
(***************************************************************************)
C18_SmallerDimensionFirst ==
  \A L \in DOMAIN possible : \A i, j \in DOMAIN possible[L] :
    i < j =>
      /\ DimOf(possible[L][i], L) <= DimOf(possible[L][j], L)
      /\ DimOf(possible[L][i], L) = DimOf(possible[L][j], L) =>
           (inp.AAA[possible[L][i]].isWrite => inp.AAA[possible[L][j]].isWrite)

(* C18, as stated: in the candidates of every loop an access of larger     *)
(* dimension stands before an access of smaller dimension, and of two      *)
(* accesses of one dimension a read stands before a write.                 *)
C18_LargerDimensionFirst ==
  \A L \in DOMAIN possible : \A i, j \in DOMAIN possible[L] :
    i < j =>
      /\ DimOf(possible[L][i], L) >= DimOf(possible[L][j], L)
      /\ DimOf(possible[L][i], L) = DimOf(possible[L][j], L) =>
           (inp.AAA[possible[L][i]].isWrite => inp.AAA[possible[L][j]].isWrite)

(* candidates of two dimensions, the smaller first, and before that a read *)
(* and a write of one dimension                                            *)
C18_Witness ==
  \E L \in DOMAIN possible : \E i, j, k \in DOMAIN possible[L] :
    /\ i < j /\ j < k
    /\ DimOf(possible[L][i], L) = DimOf(possible[L][j], L)
    /\ ~inp.AAA[possible[L][i]].isWrite /\ inp.AAA[possible[L][j]].isWrite
    /\ DimOf(possible[L][j], L) < DimOf(possible[L][k], L)

(***************************************************************************)
(* C19: the expansion cost getEstGain subtracts for an access of dimension *)
(* dim is the expression size of its base address plus, for every          *)
(* dimension d from 1 to dim, dim included, the expression sizes of        *)
(* step(d) and rep(d), EST_MUL_COST, and 1 if d > 1.                       *)
(***************************************************************************)
RECURSIVE CostOfDimensions(_, _)
CostOfDimensions(A, d) ==
  IF d = 0 THEN 0
  ELSE A.step[d] + A.rep[d] + EST_MUL_COST + (IF d > 1 THEN 1 ELSE 0)
       + CostOfDimensions(A, d - 1)

C19_ExpandCostAllDimensions ==
  \A L \in DOMAIN possible : \A a \in Range(possible[L]) :
    getEstExpandCost(inp.AAA[a], DimOf(a, L))
      = inp.AAA[a].base + CostOfDimensions(inp.AAA[a], DimOf(a, L))

(***************************************************************************)
(* C20: the trip product getEstGain uses for an access is a running        *)
(* product over its dimensions of the rep of the dimension, the constant   *)
(* if the rep is one and else EST_LOOP_TC (25): where nothing overflows    *)
(* and the factor is at least 1 it is the product; whenever the            *)
(* multiplication, at the width of int, gives less than the running        *)
(* product, the running product stays what it was.  So it is at least 1    *)
(* and never decreases from one dimension to the next.                     *)
(***************************************************************************)
(* the factor of the n-th turn: the loop over d goes from dim down to 1 *)
FactorOf(A, dim, n) ==
  IF inp.tc[getLoop(inp.LI, A, dim + 1 - n)] >= 0
  THEN inp.tc[getLoop(inp.LI, A, dim + 1 - n)] ELSE 25

RepsAfter(A, dim, n) == RunningProduct(loopTCs(inp.LI, inp.tc, A, dim), n).reps

SaturatingStep(A, dim, n) ==
  LET prev == RepsAfter(A, dim, n - 1)
      cur  == RepsAfter(A, dim, n)
      tc   == FactorOf(A, dim, n)
  IN /\ prev >= 1
     /\ cur >= prev
     /\ cur \in {prev, IntMul(prev, tc)}
     /\ IntMul(prev, tc) < prev => cur = prev
     /\ (tc >= 1 /\ prev <= INT_MAX \div tc) => cur = prev * tc

C20_TripProductSaturates ==
  \A L \in DOMAIN possible : \A a \in Range(possible[L]) :
    /\ RepsAfter(inp.AAA[a], DimOf(a, L), 0) = 1
    /\ \A n \in 1..DimOf(a, L) : SaturatingStep(inp.AAA[a], DimOf(a, L), n)
    /\ TripProduct(inp.LI, inp.tc, inp.AAA[a], DimOf(a, L)).reps
         = RepsAfter(inp.AAA[a], DimOf(a, L), DimOf(a, L))

(* the gain of a loop was computed with an access for which one            *)
(* multiplication overflowed to less than the running product, which       *)
(* stayed, and an earlier one gave the product                             *)
C20_Witness ==
  \E L \in DOMAIN gains : \E a \in Range(possible[L]) :
    \E m, n \in 1..DimOf(a, L) :
      /\ m < n
      /\ RepsAfter(inp.AAA[a], DimOf(a, L), m) > RepsAfter(inp.AAA[a], DimOf(a, L), m - 1)
      /\ FactorOf(inp.AAA[a], DimOf(a, L), n) > 1
      /\ MulOverflows(RepsAfter(inp.AAA[a], DimOf(a, L), n - 1),
                      FactorOf(inp.AAA[a], DimOf(a, L), n))
      /\ RepsAfter(inp.AAA[a], DimOf(a, L), n) = RepsAfter(inp.AAA[a], DimOf(a, L), n - 1)

(***************************************************************************)
(* C21: after cloneAndSetup cloned the region of a loop (its guard is no   *)
(* constant), the head block ends in a conditional branch on the guard,    *)
(* to the entry of the original region if true and to the clone of that    *)
(* entry if false; every stream intrinsic emitted for the loop stands in   *)
(* a block of the original region; and the clone holds the clone of every  *)
(* load and store the loop had, and no stream intrinsic.                   *)
(***************************************************************************)
OrigBlocks(r) == {v.n : v \in {x \in DOMAIN r.clones : x.k = "block"}}
LoadsAndStores(fn, bs) ==
  {i \in AllInsts(fn) : i.op \in {"load", "store"} /\ getParent(fn, i.id) \in bs}
InBlocks(fn, id, bs) == \E b \in bs : \E k \in DOMAIN fn.blocks[b] : fn.blocks[b][k].id = id

C21_GuardedCloneKeepsScalarCode ==
  (pc = "clone" /\ bIdx > 1 /\ LastCloned \in DOMAIN regions) =>
    LET r == regions[LastCloned]
    IN /\ Terminator(F, r.Head).op = "br"
       /\ Terminator(F, r.Head).args =
            <<conds[LastCloned], BV(r.Begin), r.clones[BV(r.Begin)]>>
       /\ r.clones[BV(r.Begin)].n \in CloneBlocks(r)
       /\ r.Begin \notin CloneBlocks(r)
       /\ \A i \in OpsIn(F, riscSSRIntrinsics) :
            i.lp = LastCloned => getParent(F, i.id) \in OrigBlocks(r)
       /\ \A b \in CloneBlocks(r) : ~HasOp(F, b, riscSSRIntrinsics)
       /\ \A i \in LoadsAndStores(F0, inp.LI[LastCloned].blocks) :
            /\ IV(i.id) \in DOMAIN r.clones
            /\ InBlocks(F, r.clones[IV(i.id)].n, CloneBlocks(r))
            /\ \E c \in AllInsts(F) : c.id = r.clones[IV(i.id)].n /\ c.op = i.op

(* a region just cloned whose loop got a stream_pop in place of a load,    *)
(* with barriers on                                                        *)
C21_Witness ==
  /\ pc = "clone"
  /\ bIdx > 1
  /\ LastCloned \in DOMAIN regions
  /\ flags.SSRBarrier
  /\ \E i \in OpsIn(F, {"pop"}) : i.lp = LastCloned
  /\ \E i \in OpsIn(F, {"barrier"}) : i.lp = LastCloned
  /\ LoadsAndStores(F0, inp.LI[LastCloned].blocks) # {}

(***************************************************************************)
(* C22: a call of cloneAndSetup whose guard is the constant false leaves   *)
(* the function as it is (no clone, no stream intrinsic, every load and    *)
(* store in place); a call whose guard is the constant true clones         *)
(* nothing and emits the setups and the stream_enable right before the     *)
(* preheader's terminator, the enable last, and the stream_disable right   *)
(* before the instruction that was the exit block's first insertion point. *)
(***************************************************************************)
(* the turn of the second phase that calls cloneAndSetup for L *)
CallsCloneAndSetup(L) ==
  /\ pc = "clone"
  /\ bIdx <= Len(ChosenLoops(inp.toploops, bestLoops))
  /\ L = ChosenLoops(inp.toploops, bestLoops)[bIdx]
  /\ L \in DOMAIN conds
  /\ pc' = "clone"
  /\ bIdx' = bIdx + 1

Emitted == {i \in AllInsts(F') : i.id >= F.nid}

SetUpInPlace(L) ==
  LET Ph  == getLoopPreheader(F, inp.LI, L)
      Ex  == getSingleExitBlock(F, inp.LI, L)
      n   == Len(F.blocks[Ph])
      m   == Len(F'.blocks[Ph])
      ExP == getFirstInsertionPt(F, Ex)
  IN /\ regions' = regions
     /\ Len(F'.blocks) = Len(F.blocks)
     /\ \A i \in Emitted : i.op \in riscSSRIntrinsics \cup {"sub"}
     /\ \A i \in Emitted : i.op \in riscSSRIntrinsics => i.lp = L
     /\ SubSeq(F'.blocks[Ph], 1, n - 1) = SubSeq(F.blocks[Ph], 1, n - 1)
     /\ F'.blocks[Ph][m] = F.blocks[Ph][n]
     /\ \A k \in n..(m - 1) : F'.blocks[Ph][k] \in Emitted
     /\ F'.blocks[Ph][m - 1].op = "enable"
     /\ \A i \in Emitted : i.op \in SetupOps \cup {"enable"} => getParent(F', i.id) = Ph
     /\ \E i \in Emitted : i.op \in BaseSetupOps
     /\ Cardinality({i \in Emitted : i.op = "enable"}) = 1
     /\ Cardinality({i \in Emitted : i.op = "disable"}) = 1
     /\ \A i \in Emitted : i.op = "disable" =>
          /\ getParent(F', i.id) = Ex
          /\ F'.blocks[Ex][PosOf(F', i.id) + 1].id = ExP

C22_ConstantGuard ==
  [][\A L \in DOMAIN conds :
       (CallsCloneAndSetup(L) /\ conds[L].k = "const") =>
         IF conds[L].n = 0 THEN F' = F /\ regions' = regions ELSE SetUpInPlace(L)]_vars

(* both loops of the sequence went through cloneAndSetup, one with the     *)
(* constant false and the last with the constant true, which got a stream  *)
C22_Witness ==
  /\ pc = "clone"
  /\ bIdx > 2
  /\ conds[LastCloned] = CV(1)
  /\ \E e \in OpsIn(F, {"enable"}) : e.lp = LastCloned
  /\ \E L \in DOMAIN conds : conds[L] = CV(0)

(***************************************************************************)
(* C23: with ssr-barrier on, every stream set up for a loop with data      *)
(* mover dmid has exactly one stream_barrier call of that loop with the    *)
(* same dmid, which stands before the stream_disable of the loop, and      *)
(* every stream_barrier call has the dmid of a stream set up for its loop. *)
(***************************************************************************)
BarriersFor(fn, lp, dm) == {b \in OpsIn(fn, {"barrier"}) : b.lp = lp /\ b.dm = dm}

C23_BarrierPerStream ==
  flags.SSRBarrier =>
    /\ \A s \in OpsIn(F, BaseSetupOps) :
         /\ Cardinality(BarriersFor(F, s.lp, s.dm)) = 1
         /\ \A b \in BarriersFor(F, s.lp, s.dm) : \A d \in OpsIn(F, {"disable"}) :
              d.lp = s.lp => Precedes(F, b, d)
    /\ \A b \in OpsIn(F, {"barrier"}) :
         \E s \in OpsIn(F, BaseSetupOps) : s.lp = b.lp /\ s.dm = b.dm

(***************************************************************************)
(* C24: when cloneAndSetup sets up the streams of a loop, every access     *)
(* site of the k-th expanded access is gone from the function and in its   *)
(* place, in the same block at the same position, stands one stream_pop    *)
(* (for a load) or stream_push (for a store) with data mover k - 1; every  *)
(* use of the load is a use of the pop, the push pushes the value that     *)
(* was stored; there are as many pops or pushes of the data mover as the   *)
(* access has sites, and the one setup_repetition call of the data mover   *)
(* has that number minus one as its argument.                              *)
(***************************************************************************)
(* the value v after the uses of the rewritten loads were redirected *)
Redirected(v) ==
  IF v.k = "inst" /\ ~Exists(F', v.n)
  THEN IV(F'.blocks[getParent(F, v.n)][PosOf(F, v.n)].id)
  ELSE v

PopsAndPushes(dm) == {e \in Emitted : e.op \in {"pop", "push"} /\ e.dm = dm}

SiteRewritten(L, k, x) ==
  LET A == inp.AAA[exps[L][k].Access]
      b == getParent(F, x)
      q == F'.blocks[b][PosOf(F, x)]
  IN /\ ~Exists(F', x)
     /\ Len(F'.blocks[b]) = Len(F.blocks[b])
     /\ q \in Emitted
     /\ q.op = (IF A.isWrite THEN "push" ELSE "pop")
     /\ q.dm = k - 1
     /\ q.lp = L
     /\ A.isWrite => q.args = <<Redirected(InstOf(F, x).args[1])>>
     /\ \A j \in AllInsts(F') : \A a \in DOMAIN j.args : j.args[a] # IV(x)
     /\ \A j \in AllInsts(F) : \A a \in DOMAIN j.args :
          (j.args[a] = IV(x) /\ Exists(F', j.id)) => InstOf(F', j.id).args[a] = IV(q.id)

C24_SitesBecomePopsAndPushes ==
  [][\A L \in DOMAIN conds :
       (CallsCloneAndSetup(L) /\ setsUp(conds[L], exps[L])) =>
         \A k \in DOMAIN exps[L] :
           /\ \A x \in Range(inp.AAA[exps[L][k].Access].sites) : SiteRewritten(L, k, x)
           /\ Cardinality(PopsAndPushes(k - 1)) = Len(inp.AAA[exps[L][k].Access].sites)
           /\ Cardinality({e \in Emitted : e.op = "setup_repetition" /\ e.dm = k - 1}) = 1
           /\ \A e \in Emitted :
                (e.op = "setup_repetition" /\ e.dm = k - 1) =>
                  e.imm = Cardinality(PopsAndPushes(k - 1)) - 1]_vars

(* the loop whose load and store have two sites each got its streams: two  *)
(* pops, two pushes (one of them pushes a popped value) and the            *)
(* repetition 1 for both data movers                                       *)
C24_Witness ==
  /\ pc = "clone"
  /\ bIdx > 1
  /\ inp.name = "two"
  /\ Cardinality({e \in OpsIn(F, {"pop"}) : e.dm = 0}) = 2
  /\ Cardinality({e \in OpsIn(F, {"push"}) : e.dm = 1}) = 2
  /\ \E e \in OpsIn(F, {"push"}) : \E q \in OpsIn(F, {"pop"}) : e.args = <<IV(q.id)>>
  /\ \A e \in OpsIn(F, {"setup_repetition"}) : e.imm = 1
  /\ regions # <<>>

(***************************************************************************)
(* C25: the worklist loop of findLoopsWithSSR comes to its end and the     *)
(* function returns, also on a control-flow graph with cycles; and no      *)
(* block gets past the visited check twice as marked or twice as unmarked. *)
(***************************************************************************)
ProcessedOnce ==
  \A i \in DOMAIN scan.done : \A j \in DOMAIN scan.done :
    scan.done[i] = scan.done[j] => i = j

C25_ScanTerminates == []ProcessedOnce /\ <>(pc = "scanned")

(* the walk returned after it took the header of a loop that branches to   *)
(* itself off the worklist four times: it processed it once unmarked and   *)
(* once marked and skipped it twice                                        *)
C25_Witness ==
  /\ pc = "scanned"
  /\ \E i \in DOMAIN scan.done : scan.done[i] = <<2, TRUE>>
  /\ \E i \in DOMAIN scan.done : scan.done[i] = <<2, FALSE>>
  /\ \E e \in scan.log : e.from = 2 /\ e.to = 2 /\ e.marked
  /\ \E e \in scan.log : e.from = 2 /\ e.to = 2 /\ ~e.marked

(***************************************************************************)
(* C26: the guard expandInLoop leaves for a loop is, with the TCDM checks  *)
(* on, the conjunction of the condition of the analysis with, for every    *)
(* expanded access, SSR_SCRATCHPAD_BEGIN <= LowerBound and                 *)
(* UpperBound <= SSR_SCRATCHPAD_END, both unsigned and both ends allowed;  *)
(* with ssr-no-tcdm-check it is the condition of the analysis itself and   *)
(* the function holds no comparison.  A guard is read as the set of the    *)
(* conditions it is the conjunction of: the constant true is no            *)
(* condition, the constant false makes the whole guard false.              *)
(***************************************************************************)
FalseAtom == [op |-> "false", l |-> CV(0), r |-> CV(0)]

RECURSIVE Conjuncts(_, _)
Conjuncts(fn, v) ==
  IF v.k = "const" THEN (IF v.n = 1 THEN {} ELSE {FalseAtom})
  ELSE LET i == InstOf(fn, v.n)
       IN IF i.op = "and" THEN Conjuncts(fn, i.args[1]) \cup Conjuncts(fn, i.args[2])
          ELSE IF i.op = "checks" THEN {[op |-> "checks", l |-> v, r |-> v]}
          ELSE {[op |-> i.op, l |-> i.args[1], r |-> i.args[2]]}

Falsified(S) == IF FalseAtom \in S THEN {FalseAtom} ELSE S

(* a <= b unsigned, ends included; both constants fold *)
UnsignedLE(a, b) ==
  IF a.k = "const" /\ b.k = "const"
  THEN (IF UGt(U32(a.n), U32(b.n)) THEN {FalseAtom} ELSE {})
  ELSE {[op |-> "icmp_ule", l |-> a, r |-> b]}

InScratchpad(E) ==
  UnsignedLE(CV(1048576), E.LowerBound) \cup UnsignedLE(E.UpperBound, CV(1179648))

C26_GuardIsRangeConjunction ==
  \A L \in DOMAIN conds :
    IF flags.SSRNoTCDMCheck
    THEN /\ conds[L] = checks[L]
         /\ OpsIn(F, {"icmp_ule", "icmp_ult", "icmp_uge", "icmp_sle", "and"}) = {}
    ELSE Falsified(Conjuncts(F, conds[L])) =
           Falsified(Conjuncts(F, checks[L])
                     \cup UNION {InScratchpad(exps[L][k]) : k \in DOMAIN exps[L]})

(* a guard of five conditions: the checks of the analysis and the range    *)
(* comparisons of two accesses, next to an access whose range is exactly   *)
(* the scratchpad                                                          *)
C26_Witness ==
  \E L \in DOMAIN conds :
    /\ ~flags.SSRNoTCDMCheck
    /\ checks[L].k = "inst"
    /\ Cardinality(Conjuncts(F, conds[L])) = 5
    /\ \E k \in DOMAIN exps[L] :
         exps[L][k].LowerBound = CV(1048576) /\ exps[L][k].UpperBound = CV(1179648)

(***************************************************************************)
(* C27: at the return of cloneRegion the blocks that have a clone are the  *)
(* blocks reachable from the region entry without going through the exit   *)
(* block, each has one clone of its own, and the exit block has none; the  *)
(* clone of a block holds, in order, the clones of its instructions; and   *)
(* every operand and every phi incoming block of a cloned instruction is   *)
(* the clone of the original's when that is a block or an instruction of   *)
(* the region (also one that is cloned later, or the block itself on a     *)
(* back-edge), and the original's own when it is defined outside.          *)
(***************************************************************************)
RECURSIVE RegionFrom(_, _, _)
RegionFrom(fn, S, End) ==
  LET T == S \cup (UNION {Range(successors(fn, b)) : b \in S} \ {End})
  IN IF T = S THEN S ELSE RegionFrom(fn, T, End)

RegionValues(fn, bs) ==
  {BV(b) : b \in bs} \cup UNION {{IV(fn.blocks[b][k].id) : k \in DOMAIN fn.blocks[b]} : b \in bs}

(* the clone of v when v is a value of the region, else v *)
InClone(fn, bs, clones, v) == IF v \in RegionValues(fn, bs) THEN clones[v] ELSE v

IsCloneOf(fn, bs, clones, Ic, I) ==
  /\ Ic.id = clones[IV(I.id)].n
  /\ Ic.id # I.id
  /\ Ic.op = I.op
  /\ Len(Ic.args) = Len(I.args)
  /\ \A k \in DOMAIN I.args : Ic.args[k] = InClone(fn, bs, clones, I.args[k])
  /\ Len(Ic.inb) = Len(I.inb)
  /\ \A k \in DOMAIN I.inb : Ic.inb[k] = InClone(fn, bs, clones, BV(I.inb[k])).n

RegionCloned(r) ==
  LET bs == RegionFrom(r.fn, {r.Begin}, r.End)
  IN /\ DOMAIN r.clones = RegionValues(r.fn, bs)
     /\ BV(r.End) \notin DOMAIN r.clones
     /\ \A b \in bs : r.clones[BV(b)].k = "block" /\ r.clones[BV(b)].n \notin bs
     /\ \A a \in bs : \A b \in bs : r.clones[BV(a)] = r.clones[BV(b)] => a = b
     /\ \A b \in bs :
          /\ Len(r.fn.blocks[r.clones[BV(b)].n]) = Len(r.fn.blocks[b])
          /\ \A k \in DOMAIN r.fn.blocks[b] :
               IsCloneOf(r.fn, bs, r.clones, r.fn.blocks[r.clones[BV(b)].n][k],
                         r.fn.blocks[b][k])

C27_RegionCloned ==
  \A L \in DOMAIN regions : RegionCloned(regions[L])

(* a cloned region with a phi that takes a value defined after it (cloned  *)
(* after it) from its own block, and an instruction with an operand from   *)
(* outside the region                                                      *)
C27_Witness ==
  \E L \in DOMAIN regions :
    LET r == regions[L]
    IN \E b \in RegionFrom(r.fn, {r.Begin}, r.End) :
         /\ \E k \in DOMAIN r.fn.blocks[b] :
              LET I == r.fn.blocks[b][k]
              IN /\ I.op = "phi"
                 /\ \E a \in DOMAIN I.args :
                      /\ I.inb[a] = b
                      /\ \E j \in (k + 1)..Len(r.fn.blocks[b]) :
                           I.args[a] = IV(r.fn.blocks[b][j].id)
                 /\ r.fn.blocks[r.clones[BV(b)].n][k].inb # I.inb
         /\ \E k \in DOMAIN r.fn.blocks[b] : \E a \in DOMAIN r.fn.blocks[b][k].args :
              r.fn.blocks[b][k].args[a].k = "arg"

NestOf(LI, T) == {L \in Loops(LI) : T \in LoopAncestors(LI, L)}

(* how many times x stands in the sequence s *)
Occurrences(s, x) == Cardinality({i \in DOMAIN s : s[i] = x})

(***************************************************************************)
(* C29: while the driver goes through the nest of a top-level loop T, the  *)
(* three assertions of insertNode hold for the loop visitLoop is called on *)
(* next; the loops inserted and the loops waiting in the worklist are      *)
(* loops of the nest of T, none of them twice; the root of a tree that has *)
(* a node is T; every other loop inserted has its parent loop inserted and *)
(* stands once among the children of its parent and among those of no      *)
(* other loop; and when the worklist is empty every loop of the nest is    *)
(* inserted.                                                               *)
(***************************************************************************)
C29_InsertNodeAssertionsHold ==
  pc \in {"visit", "expand"} =>
    LET T == inp.toploops[tIdx]
        LI == inp.LI
    IN /\ worklist # <<>> =>
            insertNodeAsserts(tree, Head(worklist), LI[Head(worklist)].parent)
       /\ TreeNodes(tree) \cup Range(worklist) \subseteq NestOf(LI, T)
       /\ TreeNodes(tree) \cap Range(worklist) = {}
       /\ \A x \in Range(worklist) : Occurrences(worklist, x) = 1
       /\ DOMAIN tree.children = DOMAIN tree.values
       /\ tree.Root = Null <=> TreeNodes(tree) = {}
       /\ tree.Root # Null => tree.Root = T /\ LI[T].parent = Null
       /\ \A n \in TreeNodes(tree) \ {T} :
            /\ LI[n].parent \in TreeNodes(tree)
            /\ \A p \in TreeNodes(tree) :
                 Occurrences(tree.children[p], n) = IF p = LI[n].parent THEN 1 ELSE 0
       /\ \A p \in TreeNodes(tree) : Occurrences(tree.children[p], T) = 0
       /\ worklist = <<>> => TreeNodes(tree) = NestOf(LI, T)

(* the whole of a nest three loops deep is inserted *)
C29_Witness ==
  /\ pc = "visit"
  /\ worklist = <<>>
  /\ Cardinality(TreeNodes(tree)) >= 3
  /\ \E n \in TreeNodes(tree) :
       inp.LI[n].parent # Null /\ inp.LI[n].parent # tree.Root

(* the nodes without children *)
Leaves(t) == {n \in TreeNodes(t) : t.children[n] = <<>>}

(* the places of the result that hold a node of the path from the root to n *)
SelectedOnPathTo(t, r, n) ==
  {i \in DOMAIN r : r[i] = n \/ IsAncestor(t, r[i], n)}

(***************************************************************************)
(* C30: for a tree with a root, whatever the values (all 0 included), the  *)
(* sequence findBest returns is not empty, the path from the root to each  *)
(* leaf holds exactly one selected loop, and every loop of the tree is     *)
(* selected, an ancestor of a selected loop or a descendant of one.        *)
(***************************************************************************)
C30_SelectionCoversTree ==
  (tpc = "found" /\ tree.Root # Null) =>
    /\ res # <<>>
    /\ \A l \in Leaves(tree) : Cardinality(SelectedOnPathTo(tree, res, l)) = 1
    /\ \A n \in TreeNodes(tree) :
         \E i \in DOMAIN res : res[i] = n \/ Related(tree, res[i], n)

(* two loops are selected, one of them below the root and above a leaf *)
C30_Witness ==
  /\ tpc = "found"
  /\ Len(res) >= 2
  /\ \E i \in DOMAIN res : res[i] # tree.Root /\ res[i] \notin Leaves(tree)
  /\ \E n \in TreeNodes(tree) : tree.values[n] = U32(0)


====
